---- MODULE Spec2Model ----
(***************************************************************************)
(* A model of sters/diffnest: the structural diff engine (DiffEngine), the *)
(* multi-document matcher (Compare) and its assignment solver              *)
(* (hungarianAlgorithm).                                                   *)
(*                                                                         *)
(* Go strings are modelled as sequences of byte codes (<<97, 98>> is       *)
(* "ab"), so that ToLower, EqualFold, Contains, Split, Sprintf and the     *)
(* byte-wise order of sort.Strings are computed, not assumed.              *)
(***************************************************************************)
EXTENDS Integers, Sequences, FiniteSets, TLC

VARIABLES
    a, b,          \* the two value trees handed to DiffEngine.Compare
    options,       \* the DiffOptions of the engine
    pc,            \* position of the driver that issues the calls
    rAB,           \* result of DiffEngine.Compare(a, b)
    rBA,           \* result of DiffEngine.Compare(b, a)
    rAA,           \* result of DiffEngine.Compare(a, a)
    docsA, docsB,  \* the two document lists handed to Compare
    iter,          \* map iteration orders the runtime used in the first Compare
    results,       \* forest returned by the first Compare(docsA, docsB, options)
    results2,      \* forest returned by the second Compare on the same inputs
    costMatrix,    \* input of hungarianAlgorithm
    h,             \* local variables of hungarianAlgorithm
    assignment,    \* value returned by hungarianAlgorithm
    formatter,     \* the UnifiedFormatter
    w,             \* the lines written to the io.Writer of Format
    fs,            \* local variables of UnifiedFormatter.Format
    threads,       \* the goroutines that share one DiffEngine, and their locals
    command,       \* the Command, the arguments given to Parse and what it returned
    selection      \* the pairs compareArraysByValue has selected for a and b

vars == <<a, b, options, pc, rAB, rBA, rAA, docsA, docsB, iter, results,
          results2, costMatrix, h, assignment, formatter, w, fs, threads, command, selection>>

----------------------------------------------------------------------------
(* Bounds of the model. *)

\* longest array drawn as an input of DiffEngine.Compare
MaxLen == 2
\* most documents on one side of Compare
MaxDocs == 2
\* most siblings (object keys, or lines of a string) handed to the formatter
MaxSiblings == 5
\* largest ContextLines of the formatter
MaxContext == 2
\* largest distance of a number input from a multiple of 2^62
MaxOffset == 1
\* largest hungarianAlgorithm input (rows of the square matrix)
MaxN == 3
\* goroutines that share one DiffEngine
NumThreads == 2
\* most command-line arguments handed to Command.Parse
MaxArgs == 4
\* most documents handed to Controller.Run in SpecDocs
MaxTopLevel == 3
\* longest array handed to the value strategy in SpecGreedy
MaxWide == 13
\* the slice length up to which sort.Slice sorts by insertion
maxInsertion == 12

----------------------------------------------------------------------------
(* Small helpers. *)

Max(x, y) == IF x > y THEN x ELSE y

RECURSIVE SumSeq(_)
SumSeq(s) == IF s = <<>> THEN 0 ELSE Head(s) + SumSeq(Tail(s))

RECURSIVE Concat(_)
Concat(ss) == IF ss = <<>> THEN <<>> ELSE Head(ss) \o Concat(Tail(ss))

Range(s) == {s[i] : i \in DOMAIN s}

\* a sequence given by a rule, with its elements computed once
AsSeq(s) == s \o <<>>

\* F applied to the value of e, with e computed once
Bind(e, F(_)) == CHOOSE out \in {F(x) : x \in {e}} : TRUE

----------------------------------------------------------------------------
(* Strings: byte sequences. *)

\* strings.ToLower on ASCII
ToLowerByte(c) == IF c >= 65 /\ c <= 90 THEN c + 32 ELSE c
ToLower(s) == [i \in DOMAIN s |-> ToLowerByte(s[i])]

\* strings.EqualFold on ASCII
EqualFold(s, t) == ToLower(s) = ToLower(t)

\* strings.Contains(s, "\n")
ContainsNewline(s) == \E i \in DOMAIN s : s[i] = 10

\* strings.Split(s, "\n")
RECURSIVE SplitFrom(_, _, _)
SplitFrom(s, i, cur) ==
    IF i > Len(s) THEN <<cur>>
    ELSE IF s[i] = 10 THEN <<cur>> \o SplitFrom(s, i + 1, <<>>)
    ELSE SplitFrom(s, i + 1, Append(cur, s[i]))
Split(s) == SplitFrom(s, 1, <<>>)

\* the byte-wise order of Go's string comparison
RECURSIVE StrLess(_, _)
StrLess(s, t) ==
    IF t = <<>> THEN FALSE
    ELSE IF s = <<>> THEN TRUE
    ELSE IF Head(s) # Head(t) THEN Head(s) < Head(t)
    ELSE StrLess(Tail(s), Tail(t))

\* sort.Strings over a set of distinct keys
RECURSIVE SortStrings(_)
SortStrings(S) ==
    IF S = {} THEN <<>>
    ELSE LET m == CHOOSE x \in S : \A y \in S \ {x} : StrLess(x, y)
         IN <<m>> \o SortStrings(S \ {m})

Reverse(s) == [i \in DOMAIN s |-> s[Len(s) + 1 - i]]

\* decimal digits of a non-negative integer, as fmt's %d prints them
RECURSIVE Itoa(_)
Itoa(n) == IF n < 10 THEN <<48 + n>> ELSE Append(Itoa(n \div 10), 48 + (n % 10))

\* a variant that numbers the positions from 1
IndexSegmentOneBased(i) == <<91>> \o Itoa(i + 1) \o <<93>>

\* fmt.Sprintf("[%d]", i)
IndexSegment(i) == <<91>> \o Itoa(i) \o <<93>>

\* "line " + lineNum
LinePrefix == <<108, 105, 110, 101, 32>>

----------------------------------------------------------------------------
(* StructuredData. *)

TypeNull == "TypeNull"
TypeBool == "TypeBool"
TypeNumber == "TypeNumber"
TypeString == "TypeString"
TypeArray == "TypeArray"
TypeObject == "TypeObject"

StatusSame == "StatusSame"
StatusModified == "StatusModified"
StatusAdded == "StatusAdded"
StatusDeleted == "StatusDeleted"

ArrayStrategyIndex == "ArrayStrategyIndex"
ArrayStrategyValue == "ArrayStrategyValue"

\* The payload of StructuredData.Value, a Go `any`: its dynamic type k and
\* its value (b for bool, s for string, top * 2^62 + n + d/2 for a number).
\* The numbers of the model lie within MaxOffset of a multiple of 2^62, so
\* that the ends of the int64 and uint64 ranges are among them while every
\* field stays a small integer; int and uint are 64 bits wide.
NoValue == [k |-> "nil", b |-> FALSE, top |-> 0, n |-> 0, d |-> 0, s |-> <<>>]
BoolValue(x) == [NoValue EXCEPT !.k = "bool", !.b = x]
IntValue(x) == [NoValue EXCEPT !.k = "int", !.n = x]
FloatValue(x, half) == [NoValue EXCEPT !.k = "float64", !.n = x, !.d = half]
StringValue(x) == [NoValue EXCEPT !.k = "string", !.s = x]
NumValue(kind, top, x, half) ==
    [NoValue EXCEPT !.k = kind, !.top = top, !.n = x, !.d = half]

\* a nil *StructuredData
Nil == [Type |-> "nil", Value |-> NoValue, Elements |-> <<>>, Children |-> <<>>]

Scalar(t, v) == [Type |-> t, Value |-> v, Elements |-> <<>>, Children |-> <<>>]
MkNull == Scalar(TypeNull, NoValue)
MkBool(x) == Scalar(TypeBool, BoolValue(x))
MkInt(x) == Scalar(TypeNumber, IntValue(x))
MkFloat(x, half) == Scalar(TypeNumber, FloatValue(x, half))
MkStr(x) == Scalar(TypeString, StringValue(x))
MkArr(es) == [Type |-> TypeArray, Value |-> NoValue, Elements |-> es, Children |-> <<>>]
\* cs: a function from keys (strings) to StructuredData
MkObj(cs) == [Type |-> TypeObject, Value |-> NoValue, Elements |-> <<>>, Children |-> cs]

Keys(d) == DOMAIN d.Children
Has(d, key) == key \in DOMAIN d.Children

\* DiffMeta; a nil *DiffMeta is NoMeta
NoMeta == [nil |-> TRUE, DiffCount |-> 0]
Meta(n) == [nil |-> FALSE, DiffCount |-> n]

DiffResult(status, path, from, to, children, meta) ==
    [Status |-> status, Path |-> path, From |-> from, To |-> to,
     Children |-> children, Meta |-> meta]

\* `if childDiff.Meta != nil { ... childDiff.Meta.DiffCount }`, else 0
CountOf(r) == IF r.Meta.nil THEN 0 ELSE r.Meta.DiffCount

----------------------------------------------------------------------------
(* DiffEngine.  An engine e is [options, iter]: e.options is the engine's  *)
(* DiffOptions; e.iter records the order in which the Go runtime ranges    *)
(* over the two maps of compareObjectsIgnoreCase in this call              *)
(* (e.iter.a for a.Children, e.iter.b for b.Children; TRUE is ascending    *)
(* key order, FALSE descending - Go leaves the order unspecified).         *)
(* e.iter.stable is the order sort.Slice leaves equal costs in when it is  *)
(* given more than maxInsertion matches.                                   *)

\* a variant that counts a container as one value
calculateSizeShallow(data) == IF data = Nil THEN 0 ELSE 1

RECURSIVE calculateSize(_)
calculateSize(data) ==
    IF data = Nil THEN 0
    ELSE IF data.Type \in {TypeNull, TypeBool, TypeNumber, TypeString} THEN 1
    ELSE IF data.Type = TypeArray
    THEN SumSeq([i \in DOMAIN data.Elements |-> calculateSize(data.Elements[i])])
    ELSE IF data.Type = TypeObject
    THEN LET ks == SortStrings(Keys(data))
         IN SumSeq([i \in DOMAIN ks |-> calculateSize(data.Children[ks[i]])])
    ELSE 1

\* The float64 of a numeric payload, as <<multiple of 2^62, halves>>; 0 for
\* any other payload.  A float64 has 53 bits of mantissa: from 2^61 on its
\* values are at least 512 apart, so an integer within MaxOffset of a
\* non-zero multiple of 2^62 converts to that multiple.
toFloat64(v) ==
    IF v.k \in {"int", "int64", "uint", "uint64", "float32", "float64"}
    THEN IF v.top # 0 THEN <<v.top, 0>> ELSE <<0, 2 * v.n + v.d>>
    ELSE <<0, 0>>

\* val > 9223372036854775807 for an unsigned val
AboveMaxInt64(v) == v.top > 2 \/ (v.top = 2 /\ v.n >= 0)

\* <<value, ok>>, the value as <<multiple of 2^62, offset>>.  int64(val)
\* wraps an uint above the int64 range by 2^64; the float payloads of the
\* model lie within the int64 range, where int64(val) truncates.
toInt64(v) ==
    IF v.k \in {"int", "int64"} THEN <<<<v.top, v.n>>, TRUE>>
    ELSE IF v.k = "uint"
    THEN IF AboveMaxInt64(v) THEN <<<<v.top - 4, v.n>>, TRUE>>
         ELSE <<<<v.top, v.n>>, TRUE>>
    ELSE IF v.k = "uint64"
    THEN IF AboveMaxInt64(v) THEN <<<<0, 0>>, FALSE>>
         ELSE <<<<v.top, v.n>>, TRUE>>
    ELSE IF v.k \in {"float32", "float64"}
    THEN IF v.d = 0 THEN <<<<v.top, v.n>>, TRUE>> ELSE <<<<0, 0>>, FALSE>>
    ELSE <<<<0, 0>>, FALSE>>

equalNumbers(x, y) ==
    LET aFloat == toFloat64(x)
        bFloat == toFloat64(y)
        aInt == toInt64(x)
        bInt == toInt64(y)
    IN IF aInt[2] /\ bInt[2] THEN aInt[1] = bInt[1] ELSE aFloat = bFloat

\* a variant in which IgnoreEmptyFields passes an absent key and an empty
\* array or object, and nothing else is passed
shouldIgnoreEmpty(e, data, exists) ==
    /\ e.options.IgnoreEmptyFields
    /\ \/ ~exists
       \/ data.Type \in {TypeArray, TypeObject} /\ Len(data.Elements) = 0 /\ Keys(data) = {}

shouldIgnore(e, data, exists) ==
    IF ~exists /\ e.options.IgnoreEmptyFields THEN TRUE
    ELSE IF ~e.options.IgnoreZeroValues THEN FALSE
    ELSE IF data = Nil THEN TRUE
    ELSE IF data.Type = TypeNull THEN TRUE
    ELSE IF data.Type = TypeBool THEN data.Value = BoolValue(FALSE)
    ELSE IF data.Type = TypeNumber
    THEN data.Value = IntValue(0) \/ data.Value = FloatValue(0, 0)
    ELSE IF data.Type = TypeString THEN data.Value = StringValue(<<>>)
    ELSE IF data.Type = TypeArray THEN Len(data.Elements) = 0
    ELSE IF data.Type = TypeObject THEN Keys(data) = {}
    ELSE FALSE

shouldDoLineDiff(x, y) ==
    IF x.Type # TypeString \/ y.Type # TypeString THEN FALSE
    ELSE IF x.Value.k # "string" THEN FALSE
    ELSE IF y.Value.k # "string" THEN FALSE
    ELSE ContainsNewline(x.Value.s) \/ ContainsNewline(y.Value.s)

\* the accumulation every container comparison applies to its children:
\* `if childDiff.Status != StatusSame { result.Status = StatusModified;
\*      if childDiff.Meta != nil { result.Meta.DiffCount += ... } }`
ContainerStatus(children) ==
    IF \E i \in DOMAIN children : children[i].Status # StatusSame
    THEN StatusModified ELSE StatusSame

\* a variant that counts the differing children instead of summing their
\* DiffCounts
ContainerCountChildren(children) ==
    Cardinality({i \in DOMAIN children : children[i].Status # StatusSame})

ContainerCount(children) ==
    SumSeq([i \in DOMAIN children |->
              IF children[i].Status # StatusSame THEN CountOf(children[i]) ELSE 0])

\* a.Elements[i] for a 0-based i, nil past the end
ElementAt(d, i) == IF i < Len(d.Elements) THEN d.Elements[i + 1] ELSE Nil

\* sort.Slice(matches, cost <): for the at most 12 elements an array pair of
\* this model produces, Go's pdqsort is a plain insertion sort
RECURSIVE InsertByCost(_, _)
InsertByCost(sorted, m) ==
    IF sorted = <<>> THEN <<m>>
    ELSE IF m.cost < sorted[Len(sorted)].cost
    THEN Append(InsertByCost(SubSeq(sorted, 1, Len(sorted) - 1), m), sorted[Len(sorted)])
    ELSE Append(sorted, m)

RECURSIVE SortByCost(_)
SortByCost(ms) ==
    IF ms = <<>> THEN <<>>
    ELSE InsertByCost(SortByCost(SubSeq(ms, 1, Len(ms) - 1)), ms[Len(ms)])

\* the matches with every run of equal costs reversed
ReverseTies(sorted) ==
    [k \in DOMAIN sorted |->
        LET run == {i \in DOMAIN sorted : sorted[i].cost = sorted[k].cost}
            first == CHOOSE i \in run : \A j \in run : i <= j
            last == CHOOSE i \in run : \A j \in run : j <= i
        IN sorted[first + last - k]]

\* sort.Slice(matches, by cost): "The sort is not guaranteed to be stable:
\* equal elements may be reversed from their original order."  Up to
\* maxInsertion elements the runtime sorts by insertion, which keeps equal
\* costs in the order of discovery; above it their order is whatever its
\* quicksort leaves, in this call the order of discovery (e.iter.stable) or
\* its reverse.
SortSlice(e, ms) ==
    IF Len(ms) <= maxInsertion \/ e.iter.stable THEN SortByCost(ms)
    ELSE ReverseTies(SortByCost(ms))

\* the greedy selection loop of compareArraysByValue (lines 269-279)
RECURSIVE GreedySelect(_, _, _, _)
GreedySelect(ms, usedA, usedB, finalMatches) ==
    IF ms = <<>> THEN [usedA |-> usedA, usedB |-> usedB, finalMatches |-> finalMatches]
    ELSE LET m == Head(ms)
         IN IF m.indexA \notin usedA /\ m.indexB \notin usedB
            THEN GreedySelect(Tail(ms), usedA \cup {m.indexA}, usedB \cup {m.indexB},
                              Append(finalMatches, m))
            ELSE GreedySelect(Tail(ms), usedA, usedB, finalMatches)

\* the sequence of the i in 0..n-1 that satisfy `keep`, ascending
RECURSIVE Unused(_, _, _)
Unused(i, n, used) ==
    IF i >= n THEN <<>>
    ELSE (IF i \in used THEN <<>> ELSE <<i>>) \o Unused(i + 1, n, used)

\* `for k := range m` over a map, in the order the runtime picked
MapRange(keys, ascending) ==
    IF ascending THEN SortStrings(keys) ELSE Reverse(SortStrings(keys))

\* a variant that keeps the case of the keys
KeyMapCaseSensitive(keys, ascending) == [k \in keys |-> k]

\* aKeyMap: lowercase -> original, the last key seen in range order wins
KeyMap(keys, ascending) ==
    LET order == MapRange(keys, ascending)
    IN [lowerK \in {ToLower(k) : k \in keys} |->
          LET last == CHOOSE i \in DOMAIN order :
                         /\ ToLower(order[i]) = lowerK
                         /\ \A j \in DOMAIN order :
                               ToLower(order[j]) = lowerK => j <= i
          IN order[last]]

\* the children a loop appends, skipping the empty slots
Compact(slots) == Concat(slots)

RECURSIVE compareWithPath(_, _, _, _)
RECURSIVE compareArrays(_, _, _, _)
RECURSIVE compareArraysByIndex(_, _, _, _)
RECURSIVE compareArraysByValue(_, _, _, _)
RECURSIVE compareObjects(_, _, _, _)
RECURSIVE compareObjectsIgnoreCase(_, _, _, _)
RECURSIVE compareMultilineStrings(_, _, _, _)

compareArraysByIndex(e, x, y, path) ==
    LET maxLen == Max(Len(x.Elements), Len(y.Elements))
        children == AsSeq([i \in 1..maxLen |->
                       compareWithPath(e, ElementAt(x, i - 1), ElementAt(y, i - 1),
                                       Append(path, IndexSegment(i - 1)))])
    IN DiffResult(ContainerStatus(children), path, x, y, children,
                  Meta(ContainerCount(children)))

\* "Compare all pairs": the matches, i outer and j inner
ValueMatches(e, x, y) ==
    LET la == Len(x.Elements)
        lb == Len(y.Elements)
    IN AsSeq([k \in 1..(la * lb) |->
           LET i == (k - 1) \div lb
               j == (k - 1) % lb
               childDiff == compareWithPath(e, x.Elements[i + 1],
                                            y.Elements[j + 1], <<>>)
           IN [indexA |-> i, indexB |-> j, diff |-> childDiff,
               cost |-> CountOf(childDiff)]])

compareArraysByValue(e, x, y, path) ==
    LET la == Len(x.Elements)
        lb == Len(y.Elements)
        sel == GreedySelect(SortSlice(e, ValueMatches(e, x, y)), {}, {}, <<>>)
        unA == Unused(0, la, sel.usedA)
        unB == Unused(0, lb, sel.usedB)
        deleted == [k \in DOMAIN unA |->
                      compareWithPath(e, x.Elements[unA[k] + 1], Nil,
                                      Append(path, IndexSegment(unA[k])))]
        added == [k \in DOMAIN unB |->
                    compareWithPath(e, Nil, y.Elements[unB[k] + 1],
                                    Append(path, IndexSegment(unB[k])))]
        matched == [k \in DOMAIN sel.finalMatches |->
                      [sel.finalMatches[k].diff EXCEPT
                         !.Path = Append(path, IndexSegment(sel.finalMatches[k].indexA))]]
        children == deleted \o added \o matched
        \* unmatched elements set Modified whatever their count
        status == IF deleted # <<>> \/ added # <<>> THEN StatusModified
                  ELSE ContainerStatus(matched)
        count == SumSeq([k \in DOMAIN deleted |-> CountOf(deleted[k])])
                 + SumSeq([k \in DOMAIN added |-> CountOf(added[k])])
                 + ContainerCount(matched)
    IN DiffResult(status, path, x, y, children, Meta(count))

compareArrays(e, x, y, path) ==
    IF e.options.ArrayDiffStrategy = ArrayStrategyValue
    THEN compareArraysByValue(e, x, y, path)
    ELSE compareArraysByIndex(e, x, y, path)

compareObjectsIgnoreCase(e, x, y, path) ==
    LET aKeyMap == KeyMap(Keys(x), e.iter.a)
        bKeyMap == KeyMap(Keys(y), e.iter.b)
        lowerKeys == SortStrings(DOMAIN aKeyMap \cup DOMAIN bKeyMap)
        slot(lowerKey) ==
            LET hasA == lowerKey \in DOMAIN aKeyMap
                hasB == lowerKey \in DOMAIN bKeyMap
                childA == IF hasA THEN x.Children[aKeyMap[lowerKey]] ELSE Nil
                childB == IF hasB THEN y.Children[bKeyMap[lowerKey]] ELSE Nil
                \* displayKey stays "" only if originalKeyA is the empty key
                displayKey == IF hasA /\ aKeyMap[lowerKey] # <<>> THEN aKeyMap[lowerKey]
                              ELSE IF hasB THEN bKeyMap[lowerKey]
                              ELSE <<>>
            IN IF shouldIgnore(e, childA, hasA) /\ shouldIgnore(e, childB, hasB)
               THEN <<>>
               ELSE <<compareWithPath(e, childA, childB, Append(path, displayKey))>>
        children == Compact([i \in DOMAIN lowerKeys |-> slot(lowerKeys[i])])
    IN DiffResult(ContainerStatus(children), path, x, y, children,
                  Meta(ContainerCount(children)))

compareObjects(e, x, y, path) ==
    IF e.options.IgnoreKeyCase THEN compareObjectsIgnoreCase(e, x, y, path)
    ELSE
    LET keys == SortStrings(Keys(x) \cup Keys(y))
        slot(key) ==
            LET hasA == Has(x, key)
                hasB == Has(y, key)
                childA == IF hasA THEN x.Children[key] ELSE Nil
                childB == IF hasB THEN y.Children[key] ELSE Nil
            IN IF shouldIgnore(e, childA, hasA) /\ shouldIgnore(e, childB, hasB)
               THEN <<>>
               ELSE <<compareWithPath(e, childA, childB, Append(path, key))>>
        children == Compact([i \in DOMAIN keys |-> slot(keys[i])])
    IN DiffResult(ContainerStatus(children), path, x, y, children,
                  Meta(ContainerCount(children)))

\* a variant that leaves the segment "[n]" as it is
LineLabelKeep(child) == child

\* "[n]" -> "line n" on the last path segment of a child
LineLabel(child) ==
    IF Len(child.Path) > 0
    THEN LET lastPath == child.Path[Len(child.Path)]
         IN IF Len(lastPath) > 0 /\ lastPath[1] = 91 /\ lastPath[Len(lastPath)] = 93
            THEN [child EXCEPT !.Path[Len(child.Path)] =
                     LinePrefix \o SubSeq(lastPath, 2, Len(lastPath) - 1)]
            ELSE child
    ELSE child

\* the virtual array of the lines of a string (aArray, bArray)
LineArray(x) ==
    LET lines == Split(x.Value.s)
    IN MkArr([i \in DOMAIN lines |-> MkStr(lines[i])])

\* "Convert back to string result": what compareMultilineStrings builds from
\* the result of the array comparison
MultilineResult(x, y, path, arrayResult) ==
    LET children == IF arrayResult.Status # StatusSame /\ Len(arrayResult.Children) > 0
                    THEN [i \in DOMAIN arrayResult.Children |->
                            LineLabel(arrayResult.Children[i])]
                    ELSE <<>>
    IN DiffResult(arrayResult.Status, path, x, y, children, arrayResult.Meta)

\* in one goroutine: e.options.ArrayDiffStrategy is set to index around the
\* call of compareArrays and restored after it
compareMultilineStrings(e, x, y, path) ==
    MultilineResult(x, y, path,
        compareArrays([e EXCEPT !.options.ArrayDiffStrategy = ArrayStrategyIndex],
                      LineArray(x), LineArray(y), path))

compareWithPath(e, x, y, path) ==
    IF x = Nil /\ y = Nil THEN DiffResult(StatusSame, path, Nil, Nil, <<>>, NoMeta)
    ELSE IF x = Nil
    THEN DiffResult(StatusAdded, path, Nil, y, <<>>, Meta(calculateSize(y)))
    ELSE IF y = Nil
    THEN DiffResult(StatusDeleted, path, x, Nil, <<>>, Meta(calculateSize(x)))
    ELSE IF x.Type # y.Type
    THEN DiffResult(StatusModified, path, x, y, <<>>,
                    Meta(calculateSize(x) + calculateSize(y)))
    ELSE IF x.Type = TypeNull THEN DiffResult(StatusSame, path, x, y, <<>>, NoMeta)
    ELSE IF x.Type = TypeBool
    THEN IF x.Value = y.Value
         THEN DiffResult(StatusSame, path, x, y, <<>>, NoMeta)
         ELSE DiffResult(StatusModified, path, x, y, <<>>, Meta(1))
    ELSE IF x.Type = TypeString
    THEN IF shouldDoLineDiff(x, y) THEN compareMultilineStrings(e, x, y, path)
         ELSE LET equal == \/ x.Value = y.Value
                           \/ /\ e.options.IgnoreValueCase
                              /\ x.Value.k = "string" /\ y.Value.k = "string"
                              /\ EqualFold(x.Value.s, y.Value.s)
              IN IF equal
                 THEN DiffResult(StatusSame, path, x, y, <<>>, NoMeta)
                 ELSE DiffResult(StatusModified, path, x, y, <<>>, Meta(1))
    ELSE IF x.Type = TypeNumber
    THEN IF equalNumbers(x.Value, y.Value)
         THEN DiffResult(StatusSame, path, x, y, <<>>, NoMeta)
         ELSE DiffResult(StatusModified, path, x, y, <<>>, Meta(1))
    ELSE IF x.Type = TypeArray THEN compareArrays(e, x, y, path)
    ELSE IF x.Type = TypeObject THEN compareObjects(e, x, y, path)
    ELSE DiffResult(StatusModified, path, x, y, <<>>, Meta(1))

\* DiffEngine.Compare
EngineCompare(e, x, y) == compareWithPath(e, x, y, <<>>)

----------------------------------------------------------------------------
(* Go's int is 64 bits wide; the potentials of hungarianAlgorithm reach    *)
(* multiples of 1 << 30.  A wide integer [hi, lo] stands for               *)
(* hi * 2^30 + lo with 0 <= lo < 2^30, which keeps every intermediate      *)
(* value exact.                                                            *)

WideBase == 2 ^ 30

Wide(x) == [hi |-> x \div WideBase, lo |-> x % WideBase]
WAdd(x, y) ==
    IF x.lo + y.lo >= WideBase
    THEN [hi |-> x.hi + y.hi + 1, lo |-> x.lo + y.lo - WideBase]
    ELSE [hi |-> x.hi + y.hi, lo |-> x.lo + y.lo]
WNeg(x) ==
    IF x.lo = 0 THEN [hi |-> 0 - x.hi, lo |-> 0]
    ELSE [hi |-> 0 - x.hi - 1, lo |-> WideBase - x.lo]
WSub(x, y) == WAdd(x, WNeg(y))
WLess(x, y) == x.hi < y.hi \/ (x.hi = y.hi /\ x.lo < y.lo)

RECURSIVE WSum(_)
WSum(s) == IF s = <<>> THEN Wide(0) ELSE WAdd(Wide(Head(s)), WSum(Tail(s)))

----------------------------------------------------------------------------
(* hungarianAlgorithm.  Its locals are the record st: n, the row i of the  *)
(* outer loop, u, v, p, way, minv, used (indexed 0..n as in the code), j0, *)
(* the result, and `at`, the loop the control is in.                       *)

\* `1 << 30`: the initial minv and delta
HungarianInf == 1073741824

\* the state at the first test of `for i := 1; i <= n; i++`
HEntry(n) ==
    [n |-> n, i |-> 1,
     u |-> [k \in 0..n |-> Wide(0)], v |-> [k \in 0..n |-> Wide(0)],
     p |-> [k \in 0..n |-> 0], way |-> [k \in 0..n |-> 0],
     minv |-> [k \in 0..n |-> Wide(0)], used |-> [k \in 0..n |-> FALSE],
     j0 |-> 0, assignment |-> [k \in 1..n |-> 0], at |-> "row"]

\* lines 779-788: start the augmenting path of row i
HStartRow(st) ==
    [st EXCEPT !.p[0] = st.i, !.j0 = 0,
               !.minv = [k \in 0..st.n |-> Wide(HungarianInf)],
               !.used = [k \in 0..st.n |-> FALSE],
               !.at = "search"]

\* lines 798-809: the body of the scan for one unused column j
HScanColumn(cost, st, i0, j, acc) ==
    LET cur == WSub(WSub(Wide(cost[i0][j]), st.u[i0]), st.v[j])
        lower == WLess(cur, acc.minv[j])
        minv1 == IF lower THEN [acc.minv EXCEPT ![j] = cur] ELSE acc.minv
        way1 == IF lower THEN [acc.way EXCEPT ![j] = st.j0] ELSE acc.way
        best == WLess(minv1[j], acc.delta)
    IN [minv |-> minv1, way |-> way1,
        delta |-> IF best THEN minv1[j] ELSE acc.delta,
        j1 |-> IF best THEN j ELSE acc.j1]

\* lines 797-810: the scan of the unused columns, from column j on
RECURSIVE HScanColumns(_, _, _, _, _)
HScanColumns(cost, st, i0, j, acc) ==
    IF j > st.n THEN acc
    ELSE IF st.used[j] THEN HScanColumns(cost, st, i0, j + 1, acc)
    ELSE Bind(HScanColumn(cost, st, i0, j, acc),
              LAMBDA acc1 : HScanColumns(cost, st, i0, j + 1, acc1))

\* lines 814-819: the update for one column j
HUpdatePotential(st, delta, j, acc) ==
    IF st.used[j]
    THEN [acc EXCEPT !.u[st.p[j]] = WAdd(acc.u[st.p[j]], delta),
                     !.v[j] = WSub(acc.v[j], delta)]
    ELSE [acc EXCEPT !.minv[j] = WSub(acc.minv[j], delta)]

\* lines 813-820: the update of the potentials, from column j on
RECURSIVE HUpdatePotentials(_, _, _, _)
HUpdatePotentials(st, delta, j, acc) ==
    IF j > st.n THEN acc
    ELSE Bind(HUpdatePotential(st, delta, j, acc),
              LAMBDA acc1 : HUpdatePotentials(st, delta, j + 1, acc1))

\* lines 797-810, on the locals st1 that have used[j0] set
HSearchScan(cost, st1) ==
    HScanColumns(cost, st1, st1.p[st1.j0], 1,
                 [minv |-> st1.minv, way |-> st1.way,
                  delta |-> Wide(HungarianInf), j1 |-> 0])

\* lines 813-820, after the scan
HSearchUpdate(st1, scan) ==
    HUpdatePotentials(st1, scan.delta, 0,
                      [u |-> st1.u, v |-> st1.v, minv |-> scan.minv])

\* lines 792-822: one pass of the body of `for p[j0] != 0`
HSearchBody(cost, st) ==
    Bind([st EXCEPT !.used[st.j0] = TRUE], LAMBDA st1 :
        Bind(HSearchScan(cost, st1), LAMBDA scan :
            Bind(HSearchUpdate(st1, scan), LAMBDA pot :
                [st1 EXCEPT !.u = pot.u, !.v = pot.v, !.minv = pot.minv,
                            !.way = scan.way, !.j0 = scan.j1])))

\* a variant of the path step that forgets `j0 = j1`
HPathBodyStay(st) ==
    LET j1 == st.way[st.j0]
    IN [st EXCEPT !.p[st.j0] = st.p[j1]]

\* lines 827-829: one pass of the body of `for j0 != 0`
HPathBody(st) ==
    LET j1 == st.way[st.j0]
    IN [st EXCEPT !.p[st.j0] = st.p[j1], !.j0 = j1]

\* lines 834-839: the 0-indexed assignment, from column j on
RECURSIVE HBuild(_, _, _)
HBuild(st, j, asg) ==
    IF j > st.n THEN asg
    ELSE IF st.p[j] # 0
    THEN HBuild(st, j + 1, [asg EXCEPT ![st.p[j]] = j - 1])
    ELSE HBuild(st, j + 1, asg)

\* the control flow of hungarianAlgorithm, one loop test at a time
HStep(cost, st) ==
    IF st.at = "row"
    THEN IF st.i <= st.n THEN HStartRow(st)
         ELSE [st EXCEPT !.assignment = HBuild(st, 1, [k \in 1..st.n |-> 0]),
                         !.at = "done"]
    ELSE IF st.at = "search"
    THEN IF st.p[st.j0] # 0 THEN HSearchBody(cost, st)
         ELSE [st EXCEPT !.at = "path"]
    ELSE IF st.at = "path"
    THEN IF st.j0 # 0 THEN HPathBody(st)
         ELSE [st EXCEPT !.i = st.i + 1, !.at = "row"]
    ELSE st

RECURSIVE HRun(_, _)
HRun(cost, st) == IF st.at = "done" THEN st ELSE HRun(cost, HStep(cost, st))

\* assignment[i] (1-based i) is the 0-based column of row i
hungarianAlgorithm(cost) == HRun(cost, HEntry(Len(cost))).assignment

----------------------------------------------------------------------------
(* Compare: the document matcher. *)

\* NewDiffEngine(options), run under the map iteration orders it
NewDiffEngine(opts, it) == [options |-> opts, iter |-> it]

\* "kind", "apiVersion", "metadata", "name", "namespace"
KeyKind == <<107, 105, 110, 100>>
KeyApiVersion == <<97, 112, 105, 86, 101, 114, 115, 105, 111, 110>>
KeyMetadata == <<109, 101, 116, 97, 100, 97, 116, 97>>
KeyLowerName == <<110, 97, 109, 101>>
KeyNamespace == <<110, 97, 109, 101, 115, 112, 97, 99, 101>>

\* `1 << 30`: large cost to prevent invalid matching
LargeCost == 1073741824
\* `1 << 20`: very high penalty for kind mismatch
KindPenalty == 1048576
ApiVersionPenalty == 50
NamePenalty == 10
NamespacePenalty == 5

fieldValuesMatch(x, y, fieldName) ==
    LET hasA == Has(x, fieldName)
        hasB == Has(y, fieldName)
    IN IF ~hasA /\ ~hasB THEN TRUE
       ELSE IF ~hasA \/ ~hasB THEN FALSE
       ELSE IF x.Children[fieldName].Type # y.Children[fieldName].Type THEN FALSE
       ELSE x.Children[fieldName].Value = y.Children[fieldName].Value

metadataFieldValuesMatch(x, y, fieldName) ==
    LET hasMetaA == Has(x, KeyMetadata)
        hasMetaB == Has(y, KeyMetadata)
    IN IF ~hasMetaA /\ ~hasMetaB THEN TRUE
       ELSE IF ~hasMetaA \/ ~hasMetaB THEN FALSE
       ELSE IF x.Children[KeyMetadata].Type # TypeObject
               \/ y.Children[KeyMetadata].Type # TypeObject THEN FALSE
       ELSE fieldValuesMatch(x.Children[KeyMetadata], y.Children[KeyMetadata], fieldName)

calculateResourceMismatchPenalty(x, y) ==
    IF x = Nil \/ y = Nil THEN 0
    ELSE IF x.Type # TypeObject \/ y.Type # TypeObject THEN 0
    ELSE IF ~Has(x, KeyKind) /\ ~Has(y, KeyKind) THEN 0
    ELSE (IF ~fieldValuesMatch(x, y, KeyKind) THEN KindPenalty ELSE 0)
         + (IF ~fieldValuesMatch(x, y, KeyApiVersion) THEN ApiVersionPenalty ELSE 0)
         + (IF ~metadataFieldValuesMatch(x, y, KeyLowerName)
            THEN NamePenalty ELSE 0)
         + (IF ~metadataFieldValuesMatch(x, y, KeyNamespace)
            THEN NamespacePenalty ELSE 0)

\* docs[i] for a 1-based i; index 0 stands for the nil document
DocAt(docs, i) == IF i = 0 THEN Nil ELSE docs[i]

\* lines 639-684: the diffs Compare computes once and then reuses.
\* diffs[i][j] is diffResults[i-1][j-1], diffs[i][0] is deleteDiffs[i-1]
\* and diffs[0][j] is addDiffs[j-1]
ComputeDiffs(e, dA, dB) ==
    [i \in 0..Len(dA) |->
        [j \in 0..Len(dB) |->
            IF i = 0 /\ j = 0 THEN Nil
            ELSE EngineCompare(e, DocAt(dA, i), DocAt(dB, j))]]

\* a variant of the pair cost that leaves the mismatch penalty out
PairCostNoPenalty(diffs, dA, dB, i, j) == CountOf(diffs[i][j])

\* lines 647-662: costMatrix[i][j] of the upper-left quadrant
PairCost(diffs, dA, dB, i, j) ==
    CountOf(diffs[i][j]) + calculateResourceMismatchPenalty(dA[i], dB[j])

\* lines 641-718: the cost matrix, rows and columns 1-based
BuildCostMatrix(diffs, dA, dB) ==
    LET la == Len(dA)
        lb == Len(dB)
        n == la + lb
    IN AsSeq([i \in 1..n |-> AsSeq([j \in 1..n |->
          IF i <= la /\ j <= lb THEN PairCost(diffs, dA, dB, i, j)
          ELSE IF i <= la
          THEN IF j - lb = i THEN CountOf(diffs[i][0]) ELSE LargeCost
          ELSE IF j <= lb
          THEN IF i - la = j THEN CountOf(diffs[0][j]) ELSE LargeCost
          ELSE 0])])

\* lines 723-752: the results built from the assignment
BuildResults(diffs, dA, dB, asg) ==
    LET la == Len(dA)
        lb == Len(dB)
        fromA == [i \in 1..la |->
                    IF asg[i] < lb THEN diffs[i][asg[i] + 1] ELSE diffs[i][0]]
        matchedB == {asg[i] : i \in {k \in 1..la : asg[k] < lb}}
        unB == Unused(0, lb, matchedB)
    IN fromA \o [k \in DOMAIN unB |-> diffs[0][unB[k] + 1]]

\* lines 629-752: the general path, on the diffs computed at its start
MatchDocuments(diffs, dA, dB) ==
    BuildResults(diffs, dA, dB, hungarianAlgorithm(BuildCostMatrix(diffs, dA, dB)))

\* Compare(docsA, docsB, options), run under the map iteration orders it
Compare(dA, dB, opts, it) ==
    IF Len(dA) + Len(dB) = 0 THEN <<>>
    ELSE Bind(ComputeDiffs(NewDiffEngine(opts, it), dA, dB), LAMBDA diffs :
            IF Len(dA) = 1 /\ Len(dB) = 1 THEN <<diffs[1][1]>>
            ELSE MatchDocuments(diffs, dA, dB))

\* a variant that looks at the first result only
HasDifferencesFirst(rs) == rs # <<>> /\ rs[1].Status # StatusSame

\* HasDifferences(results): the loop returns true at the first root that is
\* not Same
HasDifferences(rs) == \E i \in DOMAIN rs : rs[i].Status # StatusSame

----------------------------------------------------------------------------
(* UnifiedFormatter.  A formatter f is [ShowOnlyDiff, ContextLines, iter]:  *)
(* f.iter is the order the runtime takes in the map range of                *)
(* formatStructure.  What is written is a sequence of lines; a line keeps   *)
(* the prefix and the indent (a number of spaces) of its Fprintf call, the  *)
(* form of its format string, the key and the value that fill it, and       *)
(* `node`, the path of the DiffResult it was written for.                   *)

\* a formatter that has not been built
NoFormatter == [ShowOnlyDiff |-> FALSE, ContextLines |-> 0, iter |-> TRUE]

Line(prefix, indent, form, key, value, node) ==
    [prefix |-> prefix, indent |-> indent, form |-> form, key |-> key,
     value |-> value, node |-> node]

\* "  %s...\n" of formatChildrenWithContext, "   %s...\n" of
\* formatMultilineWithContext
MarkerLine(kind, indent) ==
    Line(IF kind = "lines" THEN "   " ELSE "  ", indent, "...", <<>>, <<>>, <<>>)

\* the text formatValue returns, up to the spelling of a scalar
formatValue(data) ==
    IF data = Nil THEN <<"null">>
    ELSE IF data.Type = TypeNull THEN <<"null">>
    ELSE IF data.Type \in {TypeBool, TypeNumber, TypeString} THEN <<"value", data.Value>>
    ELSE IF data.Type = TypeArray
    THEN IF Len(data.Elements) = 0 THEN <<"[]">> ELSE <<"items", Len(data.Elements)>>
    ELSE IF data.Type = TypeObject
    THEN IF Keys(data) = {} THEN <<"{}">> ELSE <<"fields", Cardinality(Keys(data))>>
    ELSE <<"?">>

\* strings.HasPrefix(key, "[") && strings.HasSuffix(key, "]")
IsIndexKey(key) == Len(key) > 0 /\ key[1] = 91 /\ key[Len(key)] = 93

LastKey(path) == path[Len(path)]

RECURSIVE formatStructure(_, _, _, _, _)
formatStructure(f, data, indent, prefix, node) ==
    IF data.Type = TypeObject
    THEN LET keys == MapRange(Keys(data), f.iter)
         IN Concat([k \in DOMAIN keys |->
                LET key == keys[k]
                    child == data.Children[key]
                IN IF child.Type \in {TypeObject, TypeArray}
                   THEN <<Line(prefix, indent, "key:", key, <<>>, node)>>
                            \o formatStructure(f, child, indent + 2, prefix, node)
                   ELSE <<Line(prefix, indent, "key: value", key,
                               formatValue(child), node)>>])
    ELSE IF data.Type = TypeArray
    THEN Concat([k \in DOMAIN data.Elements |->
                LET elem == data.Elements[k]
                IN IF elem.Type \in {TypeObject, TypeArray}
                   THEN <<Line(prefix, indent, "-", <<>>, <<>>, node)>>
                            \o formatStructure(f, elem, indent + 2, prefix, node)
                   ELSE <<Line(prefix, indent, "- value", <<>>,
                               formatValue(elem), node)>>])
    ELSE <<Line(prefix, indent, "value", <<>>, formatValue(data), node)>>

formatArrayElement(f, data, indent, prefix, node) ==
    IF data.Type \in {TypeObject, TypeArray}
    THEN <<Line(prefix, indent, "-", <<>>, <<>>, node)>>
             \o formatStructure(f, data, indent + 2, prefix, node)
    ELSE <<Line(prefix, indent, "- value", <<>>, formatValue(data), node)>>

formatAddedOrDeleted(f, data, path, indent, prefix) ==
    IF data = Nil THEN <<>>
    ELSE IF Len(path) = 0 THEN formatStructure(f, data, indent, prefix, path)
    ELSE IF IsIndexKey(LastKey(path))
    THEN formatArrayElement(f, data, indent, prefix, path)
    ELSE IF data.Type \in {TypeObject, TypeArray}
    THEN <<Line(prefix, indent, "key:", LastKey(path), <<>>, path)>>
             \o formatStructure(f, data, indent + 2, prefix, path)
    ELSE <<Line(prefix, indent, "key: value", LastKey(path), formatValue(data), path)>>

formatLineDiff(diff, indent) ==
    LET old(prefix) ==
            IF diff.From # Nil
            THEN <<Line(prefix, indent, "value", <<>>, <<"value", diff.From.Value>>,
                        diff.Path)>>
            ELSE <<>>
        new(prefix) ==
            IF diff.To # Nil
            THEN <<Line(prefix, indent, "value", <<>>, <<"value", diff.To.Value>>,
                        diff.Path)>>
            ELSE <<>>
    IN IF diff.Status = StatusSame THEN old("   ")
       ELSE IF diff.Status = StatusDeleted THEN old("-  ")
       ELSE IF diff.Status = StatusAdded THEN new("+  ")
       ELSE IF diff.Status = StatusModified THEN old("-  ") \o new("+  ")
       ELSE <<>>

RECURSIVE hasDifferences(_)
hasDifferences(diff) ==
    \/ diff.Status # StatusSame
    \/ \E i \in DOMAIN diff.Children : hasDifferences(diff.Children[i])

hasContentToDisplay(f, diff) == IF ~f.ShowOnlyDiff THEN TRUE ELSE hasDifferences(diff)

RECURSIVE hasChangedDescendants(_)
hasChangedDescendants(diff) ==
    \/ diff.Status # StatusSame
    \/ \E i \in DOMAIN diff.Children : hasChangedDescendants(diff.Children[i])

shouldSkipUnchanged(f, diff) ==
    f.ShowOnlyDiff /\ diff.Status = StatusSame /\ f.ContextLines < 0

isMultilineStringDiff(diff) ==
    /\ diff.From # Nil /\ diff.From.Type = TypeString
    /\ diff.To # Nil /\ diff.To.Type = TypeString

\* changedIndices, 0-based: `lines` are anchored by their status, `children`
\* by their status or a changed descendant
ChangedIndices(kind, children) ==
    {i \in 0..(Len(children) - 1) :
        IF kind = "lines" THEN children[i + 1].Status # StatusSame
        ELSE \/ children[i + 1].Status # StatusSame
             \/ hasChangedDescendants(children[i + 1])}

\* a variant that keeps the context before a change only
ShowChildBefore(changedIndices, n, contextLines) ==
    {j \in 0..(n - 1) :
        \E idx \in changedIndices : \E i \in 0..contextLines : j = idx - i}

\* the positions the three loops over changedIndices set in showChild
ShowChild(changedIndices, n, contextLines) ==
    {j \in 0..(n - 1) :
        \E idx \in changedIndices :
            \/ j = idx
            \/ \E i \in 1..contextLines : idx - i >= 0 /\ j = idx - i
            \/ \E i \in 1..contextLines : idx + i < n /\ j = idx + i}

\* variants: a marker before every run, the first included; no marker
NeedsMarkerAtStart(prevShown, i) == ~prevShown
NeedsMarkerNever(prevShown, i) == FALSE

\* `if !prevShown && i > 0`
NeedsMarker(prevShown, i) == ~prevShown /\ i > 0

RECURSIVE formatDiff(_, _, _)
RECURSIVE formatSameDiff(_, _, _)
RECURSIVE formatModifiedDiff(_, _, _)
RECURSIVE formatModifiedContainer(_, _, _)
RECURSIVE formatChildren(_, _, _)
RECURSIVE formatChildrenWithContext(_, _, _)
RECURSIVE WindowBody(_, _, _, _, _, _)
RECURSIVE WindowLoop(_, _, _, _, _, _)

\* One iteration of the output loop of formatChildrenWithContext
\* (kind "children") or formatMultilineWithContext (kind "lines"), on the
\* locals st = [i, prevShown, w].
WindowBody(f, kind, children, indent, show, st) ==
    IF st.i \in show
    THEN [i |-> st.i + 1, prevShown |-> TRUE,
          w |-> st.w
                  \o (IF NeedsMarker(st.prevShown, st.i)
                      THEN <<MarkerLine(kind, indent)>> ELSE <<>>)
                  \o (IF kind = "lines" THEN formatLineDiff(children[st.i + 1], indent)
                      ELSE formatDiff(f, children[st.i + 1], indent))]
    ELSE [i |-> st.i + 1, prevShown |-> FALSE, w |-> st.w]

WindowLoop(f, kind, children, indent, show, st) ==
    IF st.i >= Len(children) THEN st.w
    ELSE WindowLoop(f, kind, children, indent, show,
                    WindowBody(f, kind, children, indent, show, st))

\* the locals at the entry of the output loop
WindowEntry == [i |-> 0, prevShown |-> FALSE, w |-> <<>>]

formatMultilineWithContext(f, lines, indent) ==
    LET changedIndices == ChangedIndices("lines", lines)
    IN IF changedIndices = {} THEN <<>>
       ELSE WindowLoop(f, "lines", lines, indent,
                       ShowChild(changedIndices, Len(lines), f.ContextLines),
                       WindowEntry)

formatChildrenWithContext(f, children, indent) ==
    LET changedIndices == ChangedIndices("children", children)
    IN IF changedIndices = {} THEN <<>>
       ELSE WindowLoop(f, "children", children, indent,
                       ShowChild(changedIndices, Len(children), f.ContextLines),
                       WindowEntry)

formatChildren(f, children, indent) ==
    Concat([i \in DOMAIN children |-> formatDiff(f, children[i], indent)])

formatMultilineChildren(f, children, indent) ==
    Concat([i \in DOMAIN children |->
              IF ~f.ShowOnlyDiff \/ children[i].Status # StatusSame
              THEN formatLineDiff(children[i], indent) ELSE <<>>])

\* the header "  <indent> <path>:" of a multiline string
MultilineHeader(diff, indent) ==
    Line("  ", indent, "path:", diff.Path, <<>>, diff.Path)

formatMultilineStringDiff(f, diff, indent) ==
    (IF ~f.ShowOnlyDiff THEN <<MultilineHeader(diff, indent)>> ELSE <<>>)
        \o (IF f.ShowOnlyDiff /\ f.ContextLines >= 0
            THEN formatMultilineWithContext(f, diff.Children, indent + 2)
            ELSE formatMultilineChildren(f, diff.Children, indent + 2))

formatModifiedContainer(f, diff, indent) ==
    IF f.ShowOnlyDiff /\ f.ContextLines >= 0
    THEN formatChildrenWithContext(f, diff.Children, indent)
    ELSE formatChildren(f, diff.Children, indent)

formatModifiedPrimitive(diff, indent) ==
    IF Len(diff.Path) > 0
    THEN IF IsIndexKey(LastKey(diff.Path))
         THEN <<Line("- ", indent, "- value", <<>>, formatValue(diff.From), diff.Path),
                Line("+ ", indent, "- value", <<>>, formatValue(diff.To), diff.Path)>>
         ELSE <<Line("- ", indent, "key: value", LastKey(diff.Path),
                     formatValue(diff.From), diff.Path),
                Line("+ ", indent, "key: value", LastKey(diff.Path),
                     formatValue(diff.To), diff.Path)>>
    ELSE <<>>

\* the line that opens a container: "-" for an array element, "key:" else
ContainerHeader(diff, indent) ==
    IF IsIndexKey(LastKey(diff.Path))
    THEN Line("  ", indent, "-", <<>>, <<>>, diff.Path)
    ELSE Line("  ", indent, "key:", LastKey(diff.Path), <<>>, diff.Path)

formatModifiedDiff(f, diff, indent) ==
    IF Len(diff.Children) = 0 THEN formatModifiedPrimitive(diff, indent)
    ELSE IF isMultilineStringDiff(diff) THEN formatMultilineStringDiff(f, diff, indent)
    ELSE IF Len(diff.Path) > 0
    THEN <<ContainerHeader(diff, indent)>> \o formatModifiedContainer(f, diff, indent + 2)
    ELSE formatModifiedContainer(f, diff, indent)

formatSameDiff(f, diff, indent) ==
    IF Len(diff.Children) > 0
    THEN IF Len(diff.Path) > 0
         THEN <<ContainerHeader(diff, indent)>>
                  \o formatChildren(f, diff.Children, indent + 2)
         ELSE formatChildren(f, diff.Children, indent)
    ELSE IF Len(diff.Path) > 0
    THEN IF IsIndexKey(LastKey(diff.Path))
         THEN <<Line("  ", indent, "- value", <<>>, formatValue(diff.From), diff.Path)>>
         ELSE <<Line("  ", indent, "key: value", LastKey(diff.Path),
                     formatValue(diff.From), diff.Path)>>
    ELSE <<>>

formatDiff(f, diff, indent) ==
    IF shouldSkipUnchanged(f, diff) THEN <<>>
    ELSE IF diff.Status = StatusSame THEN formatSameDiff(f, diff, indent)
    ELSE IF diff.Status = StatusModified THEN formatModifiedDiff(f, diff, indent)
    ELSE IF diff.Status = StatusDeleted
    THEN formatAddedOrDeleted(f, diff.From, diff.Path, indent, "- ")
    ELSE IF diff.Status = StatusAdded
    THEN formatAddedOrDeleted(f, diff.To, diff.Path, indent, "+ ")
    ELSE <<>>

----------------------------------------------------------------------------
(* Inputs of the engine specification. *)

\* "a", "A", "a\nb", "a\nB", "Name", "name"
StrA == <<97>>
StrUpperA == <<65>>
StrLines == <<97, 10, 98>>
StrLinesUpper == <<97, 10, 66>>
KeyName == <<78, 97, 109, 101>>

EmptyArr == MkArr(<<>>)
EmptyObj == MkObj(<<>>)

Scalars ==
    {MkNull, MkBool(FALSE), MkInt(1), MkFloat(1, 0), MkFloat(0, 1),
     MkStr(StrA), MkStr(StrUpperA), MkStr(StrLines), MkStr(StrLinesUpper)}

\* the elements arrays are built from
Leaves == {MkInt(1), MkStr(StrA), EmptyArr, EmptyObj}

Arrays == {MkArr(s) : s \in UNION {[1..n -> Leaves] : n \in 0..MaxLen}}

\* objects over two keys that differ only in case
ObjKeys == {KeyName, KeyLowerName}
Objects == {MkObj(f) : f \in UNION {[K -> {MkInt(0), MkInt(1)}] : K \in SUBSET ObjKeys}}

Nested ==
    {MkArr(<<MkArr(<<MkInt(1)>>)>>),
     MkArr(<<MkArr(<<>>)>>),
     MkArr(<<MkObj(KeyName :> MkInt(1)), MkStr(StrLines)>>),
     MkObj(KeyName :> MkArr(<<MkInt(1), MkInt(0)>>)),
     MkObj(KeyName :> MkArr(<<MkInt(0), MkInt(1)>>)),
     MkObj(KeyName :> MkStr(StrLines)),
     MkObj(KeyName :> MkStr(StrLinesUpper)),
     MkObj(KeyName :> EmptyArr)}

Values == Scalars \cup Arrays \cup Objects \cup Nested

DiffOptions ==
    [IgnoreEmptyFields : BOOLEAN, IgnoreZeroValues : BOOLEAN,
     IgnoreKeyCase : BOOLEAN, IgnoreValueCase : BOOLEAN,
     ArrayDiffStrategy : {ArrayStrategyIndex, ArrayStrategyValue}]

DefaultOptions ==
    [IgnoreEmptyFields |-> FALSE, IgnoreZeroValues |-> FALSE,
     IgnoreKeyCase |-> FALSE, IgnoreValueCase |-> FALSE,
     ArrayDiffStrategy |-> ArrayStrategyIndex]

\* the map iteration orders of one call
IterOrders == [a : BOOLEAN, b : BOOLEAN, stable : {TRUE}]

\* The orders that can show in a result.  Only compareObjectsIgnoreCase keeps
\* what depends on the order of a map range (the last key seen); every other
\* range feeds a sort or a sum, so without IgnoreKeyCase one order stands
\* for all.
RangeOrders(opts) ==
    IF opts.IgnoreKeyCase THEN IterOrders ELSE {[a |-> TRUE, b |-> TRUE, stable |-> TRUE]}

\* a result variable before its call has returned
NoResult == DiffResult("none", <<>>, Nil, Nil, <<>>, NoMeta)

----------------------------------------------------------------------------
(* Specification Spec: a driver builds one engine and calls                *)
(* Compare(a, b), Compare(b, a) and Compare(a, a) on it, in that order.    *)

Init ==
    /\ a \in Values
    /\ b \in Values
    /\ options \in DiffOptions
    /\ pc = "start"
    /\ rAB = NoResult
    /\ rBA = NoResult
    /\ rAA = NoResult
    /\ docsA = <<>>
    /\ docsB = <<>>
    /\ iter = [a |-> TRUE, b |-> TRUE, stable |-> TRUE]
    /\ results = <<>>
    /\ results2 = <<>>
    /\ costMatrix = <<>>
    /\ h = <<>>
    /\ assignment = <<>>
    /\ formatter = NoFormatter
    /\ w = <<>>
    /\ fs = <<>>
    /\ threads = <<>>
    /\ command = <<>>
    /\ selection = <<>>

CompareAB ==
    /\ pc = "start"
    /\ \E it \in RangeOrders(options) : rAB' = EngineCompare(NewDiffEngine(options, it), a, b)
    /\ pc' = "ab"
    /\ UNCHANGED <<a, b, options, rBA, rAA, docsA, docsB, iter, results, results2,
                   costMatrix, h, assignment, formatter, w, fs, threads, command, selection>>

CompareBA ==
    /\ pc = "ab"
    /\ \E it \in RangeOrders(options) : rBA' = EngineCompare(NewDiffEngine(options, it), b, a)
    /\ pc' = "ba"
    /\ UNCHANGED <<a, b, options, rAB, rAA, docsA, docsB, iter, results, results2,
                   costMatrix, h, assignment, formatter, w, fs, threads, command, selection>>

CompareAA ==
    /\ pc = "ba"
    /\ \E it \in RangeOrders(options) : rAA' = EngineCompare(NewDiffEngine(options, it), a, a)
    /\ pc' = "done"
    /\ UNCHANGED <<a, b, options, rAB, rBA, docsA, docsB, iter, results, results2,
                   costMatrix, h, assignment, formatter, w, fs, threads, command, selection>>

Next == CompareAB \/ CompareBA \/ CompareAA

Spec == Init /\ [][Next]_vars

----------------------------------------------------------------------------
(* Properties of the engine, stated on the runs of Spec. *)

\* s and t hold the same elements with the same multiplicities
IsPermutation(s, t) ==
    /\ Len(s) = Len(t)
    /\ \A x \in Range(s) \cup Range(t) :
          Cardinality({i \in DOMAIN s : s[i] = x})
              = Cardinality({i \in DOMAIN t : t[i] = x})

\* C1: for every value tree v and every option combination, Compare(v, v)
\* has status Same and diffCount 0.
ReflexiveSame ==
    pc = "done" => (rAA.Status = StatusSame /\ CountOf(rAA) = 0)

\* C2: for all value trees a and b and every option combination,
\* Compare(a, b) has status Same if and only if Compare(b, a) has.
SymmetricSame ==
    pc \in {"ba", "done"} => (rAB.Status = StatusSame <=> rBA.Status = StatusSame)

\* the accumulation rule at every node of the tree r
RECURSIVE NodesAccumulate(_)
NodesAccumulate(r) ==
    /\ r.Children # <<>> =>
          /\ r.Status \in {StatusSame, StatusModified}
          /\ r.Status = StatusModified
                <=> \E i \in DOMAIN r.Children : r.Children[i].Status # StatusSame
          /\ CountOf(r) = SumSeq([i \in DOMAIN r.Children |-> CountOf(r.Children[i])])
    /\ \A i \in DOMAIN r.Children : NodesAccumulate(r.Children[i])

\* C9: in every result tree, a node that has children is Modified if and
\* only if at least one child is not Same (otherwise it is Same), and its
\* diffCount is the sum of its children's diffCounts.
ContainerAccumulation ==
    /\ NodesAccumulate(rAB)
    /\ NodesAccumulate(rBA)
    /\ NodesAccumulate(rAA)

\* a result whose child is itself a container with two differing children
ContainerAccumulationWitness ==
    /\ pc = "done"
    /\ rAB.Status = StatusModified
    /\ CountOf(rAB) >= 2
    /\ \E i \in DOMAIN rAB.Children :
          /\ rAB.Children[i].Status = StatusModified
          /\ Len(rAB.Children[i].Children) >= 2
          /\ CountOf(rAB.Children[i]) = CountOf(rAB)

\* C10: under the value strategy, if array b is a permutation of array a,
\* Compare(a, b) has status Same and diffCount 0, whatever the elements are.
ValuePermutationSame ==
    (/\ pc # "start"
     /\ options.ArrayDiffStrategy = ArrayStrategyValue
     /\ a.Type = TypeArray
     /\ b.Type = TypeArray
     /\ IsPermutation(a.Elements, b.Elements))
        => (rAB.Status = StatusSame /\ CountOf(rAB) = 0)

\* the segments "[0]", "[1]", "[2]", "[3]", written out
BracketSegments == <<<<91, 48, 93>>, <<91, 49, 93>>, <<91, 50, 93>>, <<91, 51, 93>>>>

\* the tree r with every path prefixed by `prefix`
RECURSIVE Relocate(_, _)
Relocate(r, prefix) ==
    [r EXCEPT !.Path = prefix \o r.Path,
              !.Children = [k \in DOMAIN r.Children |->
                              Relocate(r.Children[k], prefix)]]

\* the element at 1-based position i of a sequence, absent past its end
Slot(s, i) == IF i <= Len(s) THEN s[i] ELSE Nil

\* C11: under the index strategy, comparing arrays a and b yields exactly
\* max(len(a), len(b)) children in position order; child i is
\* Compare(a[i], b[i]), a side being absent past that array's end, and its
\* path is the parent path plus the segment "[i]".
IndexStrategyShape ==
    (/\ pc # "start"
     /\ options.ArrayDiffStrategy = ArrayStrategyIndex
     /\ a.Type = TypeArray
     /\ b.Type = TypeArray)
        => /\ Len(rAB.Children) = Max(Len(a.Elements), Len(b.Elements))
           /\ \A i \in DOMAIN rAB.Children :
                 \E it \in RangeOrders(options) :
                    rAB.Children[i]
                        = Relocate(EngineCompare(NewDiffEngine(options, it),
                                                 Slot(a.Elements, i),
                                                 Slot(b.Elements, i)),
                                   <<BracketSegments[i]>>)

\* ["a"] against ["a", 1]: Modified, one Same child at [0] and one Added
\* child at [1]
IndexStrategyShapeWitness ==
    /\ pc # "start"
    /\ options.ArrayDiffStrategy = ArrayStrategyIndex
    /\ a = MkArr(<<MkStr(StrA)>>)
    /\ b = MkArr(<<MkStr(StrA), MkInt(1)>>)
    /\ rAB.Status = StatusModified
    /\ Len(rAB.Children) = 2
    /\ rAB.Children[1].Status = StatusSame
    /\ rAB.Children[2].Status = StatusAdded
    /\ rAB.Children[2].Path = <<BracketSegments[2]>>
    /\ rAB.Children[2].From = Nil
    /\ rAB.Children[2].To = MkInt(1)

\* the positions of the scalar nodes of a value tree, each the sequence of
\* indices and keys that leads to it
RECURSIVE ScalarLeaves(_)
ScalarLeaves(v) ==
    IF v = Nil THEN {}
    ELSE IF v.Type = TypeArray
    THEN UNION {{<<<<i>>>> \o q : q \in ScalarLeaves(v.Elements[i])} :
                   i \in DOMAIN v.Elements}
    ELSE IF v.Type = TypeObject
    THEN UNION {{<<k>> \o q : q \in ScalarLeaves(v.Children[k])} : k \in Keys(v)}
    ELSE {<<>>}

leafCount(v) == Cardinality(ScalarLeaves(v))

\* the rule of C12 at every node of the tree r
RECURSIVE AbsenceAndMismatch(_)
AbsenceAndMismatch(r) ==
    /\ (r.From = Nil /\ r.To # Nil) =>
          /\ r.Status = StatusAdded
          /\ r.Children = <<>>
          /\ CountOf(r) = leafCount(r.To)
    /\ (r.From # Nil /\ r.To = Nil) =>
          /\ r.Status = StatusDeleted
          /\ r.Children = <<>>
          /\ CountOf(r) = leafCount(r.From)
    /\ (r.From # Nil /\ r.To # Nil /\ r.From.Type # r.To.Type) =>
          /\ r.Status = StatusModified
          /\ r.Children = <<>>
          /\ CountOf(r) = leafCount(r.From) + leafCount(r.To)
    /\ r.Status = StatusAdded => (r.From = Nil /\ r.To # Nil)
    /\ r.Status = StatusDeleted => (r.From # Nil /\ r.To = Nil)
    /\ \A i \in DOMAIN r.Children : AbsenceAndMismatch(r.Children[i])

\* C12: where Compare does not recurse - exactly one side absent, or both
\* present with different types - the node has no children; it is Added
\* with only `to` set when a is absent, Deleted with only `from` set when b
\* is absent, Modified when the types differ; and its diffCount is the
\* number of scalar leaves of the present side or sides.
NoRecursionNodes ==
    /\ pc # "start" => AbsenceAndMismatch(rAB)
    /\ pc \in {"ba", "done"} => AbsenceAndMismatch(rBA)

\* [{Name: 1}, "a\nb"] against [1] by index: the first child is a type
\* mismatch counting 2 leaves, the second a deletion counting 1
NoRecursionNodesWitness ==
    /\ pc \in {"ba", "done"}
    /\ options.ArrayDiffStrategy = ArrayStrategyIndex
    /\ a = MkArr(<<MkObj(KeyName :> MkInt(1)), MkStr(StrLines)>>)
    /\ b = MkArr(<<MkInt(1)>>)
    /\ rAB.Children[1].Status = StatusModified
    /\ CountOf(rAB.Children[1]) = 2
    /\ rAB.Children[2].Status = StatusDeleted
    /\ CountOf(rAB.Children[2]) = 1
    /\ rBA.Children[2].Status = StatusAdded
    /\ rBA.Children[2].From = Nil

\* "the type's zero/empty form": 0, false, "", an empty array, an empty
\* object, or null
IsZeroValue(v) ==
    \/ v.Type = TypeNull
    \/ v.Type = TypeBool /\ v.Value.k = "bool" /\ ~v.Value.b
    \/ v.Type = TypeNumber /\ v.Value.top = 0 /\ v.Value.n = 0 /\ v.Value.d = 0
    \/ v.Type = TypeString /\ v.Value.s = <<>>
    \/ v.Type = TypeArray /\ v.Elements = <<>>
    \/ v.Type = TypeObject /\ Keys(v) = {}

\* two keys name the same slot
SameKey(k1, k2) ==
    IF options.IgnoreKeyCase THEN ToLower(k1) = ToLower(k2) ELSE k1 = k2

HasKey(d, k) == \E k2 \in Keys(d) : SameKey(k, k2)

\* the children of r hold a result for key k with a status in st
Reported(r, k, st) ==
    \E i \in DOMAIN r.Children :
        /\ SameKey(r.Children[i].Path[Len(r.Children[i].Path)], k)
        /\ r.Children[i].Status \in st

\* the ignore predicate on the side d of key k
Ignorable(d, k) ==
    IF Has(d, k) THEN options.IgnoreZeroValues /\ IsZeroValue(d.Children[k])
    ELSE options.IgnoreEmptyFields \/ options.IgnoreZeroValues

IgnoreRuleHolds ==
    /\ \A k \in Keys(a) :
          (~HasKey(b, k) /\ ~IsZeroValue(a.Children[k]))
              => Reported(rAB, k, {StatusDeleted})
    /\ \A k \in Keys(b) :
          (~HasKey(a, k) /\ ~IsZeroValue(b.Children[k]))
              => Reported(rAB, k, {StatusAdded})
    /\ \A k \in Keys(a) :
          (options.IgnoreZeroValues /\ ~HasKey(b, k) /\ IsZeroValue(a.Children[k]))
              => ~Reported(rAB, k, {StatusSame, StatusModified, StatusAdded,
                                   StatusDeleted})
    /\ \A k \in Keys(a) \cup Keys(b) :
          ~Reported(rAB, k, {StatusSame, StatusModified, StatusAdded, StatusDeleted})
              => \A k2 \in Keys(a) \cup Keys(b) :
                    SameKey(k, k2) => (Ignorable(a, k2) /\ Ignorable(b, k2))

\* C14: in object comparison a key is omitted from the children only if
\* both sides independently satisfy the ignore predicate; a key absent on
\* one side and present with a non-zero value on the other is always
\* reported (Added or Deleted), and a key zero-valued on one side and absent
\* on the other is omitted when ignoreZeroValues is set.
IgnoreOnlyIfBothSides ==
    (pc # "start" /\ a.Type = TypeObject /\ b.Type = TypeObject) => IgnoreRuleHolds

\* no two keys of the object d differ only in case
DistinctFolded(d) == \A k1, k2 \in Keys(d) : ToLower(k1) = ToLower(k2) => k1 = k2

\* the same statement for objects whose keys stay distinct in the comparison
IgnoreOnlyIfBothSidesDistinctKeys ==
    (/\ pc # "start"
     /\ a.Type = TypeObject
     /\ b.Type = TypeObject
     /\ options.IgnoreKeyCase => (DistinctFolded(a) /\ DistinctFolded(b)))
        => IgnoreRuleHolds

\* the labels "line 0", "line 1", "line 2", "line 3", written out
LineSegments ==
    <<<<108, 105, 110, 101, 32, 48>>, <<108, 105, 110, 101, 32, 49>>,
      <<108, 105, 110, 101, 32, 50>>, <<108, 105, 110, 101, 32, 51>>>>

\* the list of the lines of a String node, as an array of String nodes
LineList(v) ==
    LET lines == Split(v.Value.s)
    IN MkArr([i \in DOMAIN lines |-> MkStr(lines[i])])

\* C15: when two String nodes are compared and either contains a line break,
\* the status and diffCount of the result are those of the index-strategy
\* comparison of the two line lists (also when the engine is configured
\* with the value strategy), from/to stay the original strings, and when
\* the status is not Same the children are the per-line results, labelled
\* "line i".
MultilineAsLines ==
    (/\ pc # "start"
     /\ a.Type = TypeString
     /\ b.Type = TypeString
     /\ ContainsNewline(a.Value.s) \/ ContainsNewline(b.Value.s))
        => LET byIndex ==
                   EngineCompare(
                       NewDiffEngine([options EXCEPT
                                         !.ArrayDiffStrategy = ArrayStrategyIndex],
                                     iter),
                       LineList(a), LineList(b))
           IN /\ rAB.Status = byIndex.Status
              /\ CountOf(rAB) = CountOf(byIndex)
              /\ rAB.From = a
              /\ rAB.To = b
              /\ rAB.Status # StatusSame =>
                    /\ Len(rAB.Children) = Len(byIndex.Children)
                    /\ \A i \in DOMAIN rAB.Children :
                          rAB.Children[i]
                              = [byIndex.Children[i] EXCEPT
                                    !.Path = <<LineSegments[i]>>]

\* "a\nb" against "a\nB" under the value strategy: Modified, and the one
\* child that is not Same is at "line 1"
MultilineAsLinesWitness ==
    /\ pc # "start"
    /\ options.ArrayDiffStrategy = ArrayStrategyValue
    /\ ~options.IgnoreValueCase
    /\ a = MkStr(StrLines)
    /\ b = MkStr(StrLinesUpper)
    /\ rAB.Status = StatusModified
    /\ CountOf(rAB) = 1
    /\ Len(rAB.Children) = 2
    /\ rAB.Children[1].Status = StatusSame
    /\ rAB.Children[2].Status = StatusModified
    /\ rAB.Children[2].Path = <<LineSegments[2]>>

\* every child's path is the path of its parent and one more segment
RECURSIVE PathsExtend(_)
PathsExtend(r) ==
    \A i \in DOMAIN r.Children :
        /\ Len(r.Children[i].Path) = Len(r.Path) + 1
        /\ SubSeq(r.Children[i].Path, 1, Len(r.Path)) = r.Path
        /\ PathsExtend(r.Children[i])

\* C23: in every result tree returned by Compare, under either array
\* strategy, each child's path equals its parent's path extended by exactly
\* one segment, so every node at any depth carries its full path from the
\* comparison root (including the descendants of array elements matched by
\* the value strategy).
FullPaths == PathsExtend(rAB) /\ PathsExtend(rBA) /\ PathsExtend(rAA)

\* the same statement under the index strategy
FullPathsByIndex ==
    options.ArrayDiffStrategy = ArrayStrategyIndex => FullPaths

\* an object matched by the value strategy at index 0: its child is at
\* <<"Name">>, not at <<"[0]", "Name">>
RelativePathUnderValue ==
    /\ options.ArrayDiffStrategy = ArrayStrategyValue
    /\ Len(rAA.Children) > 0
    /\ rAA.Children[1].Path = <<BracketSegments[1]>>
    /\ Len(rAA.Children[1].Children) > 0
    /\ rAA.Children[1].Children[1].Path = <<KeyName>>

\* a node of the tree has DiffCount 0, or no Meta, exactly when it is Same
RECURSIVE CountsMatchStatus(_)
CountsMatchStatus(r) ==
    /\ (CountOf(r) = 0) <=> (r.Status \in {StatusSame, "none"})
    /\ \A i \in DOMAIN r.Children : CountsMatchStatus(r.Children[i])

\* a value that holds a scalar at some depth
RECURSIVE HoldsScalar(_)
HoldsScalar(d) ==
    /\ d # Nil
    /\ \/ d.Type \notin {TypeArray, TypeObject}
       \/ \E i \in DOMAIN d.Elements : HoldsScalar(d.Elements[i])
       \/ \E k \in Keys(d) : HoldsScalar(d.Children[k])

\* no array or object without a scalar in it, at any depth
RECURSIVE NoEmptyContainers(_)
NoEmptyContainers(d) ==
    /\ HoldsScalar(d)
    /\ \A i \in DOMAIN d.Elements : NoEmptyContainers(d.Elements[i])
    /\ \A k \in Keys(d) : NoEmptyContainers(d.Children[k])

\* C28: in every result tree a node has diffCount 0 (or no meta) if and only
\* if its status is Same: every Modified, Added or Deleted node has
\* diffCount >= 1, so a zero matching cost always means an exact match.
ZeroCountIffSame ==
    CountsMatchStatus(rAB) /\ CountsMatchStatus(rBA) /\ CountsMatchStatus(rAA)

\* the same statement for values without an empty array or object in them
ZeroCountIffSameNoEmpty ==
    (NoEmptyContainers(a) /\ NoEmptyContainers(b))
        => (CountsMatchStatus(rAB) /\ CountsMatchStatus(rBA) /\ CountsMatchStatus(rAA))

\* [] against {}: Modified with DiffCount 0
EmptyContainersModifiedZero ==
    /\ pc # "start"
    /\ a = EmptyArr
    /\ b = EmptyObj
    /\ rAB.Status = StatusModified
    /\ CountOf(rAB) = 0

\* the options of the run with IgnoreEmptyFields set to flag
WithIgnoreEmptyFields(flag) == [options EXCEPT !.IgnoreEmptyFields = flag]

\* the trees Compare(a, b) can return with IgnoreEmptyFields set to flag,
\* over the orders its map ranges can take
Outcomes(flag) ==
    {EngineCompare(NewDiffEngine(WithIgnoreEmptyFields(flag), it), a, b) :
        it \in RangeOrders(options)}

RECURSIVE DistinctPaths(_)
DistinctPaths(r) ==
    /\ \A i, j \in DOMAIN r.Children :
          r.Children[i].Path = r.Children[j].Path => i = j
    /\ \A i \in DOMAIN r.Children : DistinctPaths(r.Children[i])

\* C30: within any container node of a result tree no two children have the
\* same path; in particular under the value strategy an Added child placed
\* at its b-side index never shares a path with a matched child placed at
\* its a-side index.
ChildPathsDistinct == DistinctPaths(rAB) /\ DistinctPaths(rBA) /\ DistinctPaths(rAA)

\* the same statement for the index strategy
ChildPathsDistinctByIndex ==
    options.ArrayDiffStrategy = ArrayStrategyIndex
        => (DistinctPaths(rAB) /\ DistinctPaths(rBA) /\ DistinctPaths(rAA))

\* [1] against ["a", 1] by value: "a" is Added at [0] and the pair of the
\* two 1 is Same at [0]
AddedSharesPathWithMatched ==
    /\ pc # "start"
    /\ options.ArrayDiffStrategy = ArrayStrategyValue
    /\ a = MkArr(<<MkInt(1)>>)
    /\ b = MkArr(<<MkStr(StrA), MkInt(1)>>)
    /\ Len(rAB.Children) = 2
    /\ rAB.Children[1].Status = StatusAdded
    /\ rAB.Children[2].Status = StatusSame
    /\ rAB.Children[1].Path = rAB.Children[2].Path

----------------------------------------------------------------------------
(* Specification SpecNumbers: DiffEngine.Compare on two Number nodes, whose *)
(* payloads range over the numeric Go types and over both ends of the       *)
(* int64 and uint64 ranges.                                                 *)

\* Number nodes of every numeric kind: the values an int64 holds
\* (-2^63 .. 2^63 - 1) for the signed kinds, those an uint64 holds
\* (0 .. 2^64 - 1) for the unsigned kinds, and for the floats the small
\* integers and halves, -2^62 and 2^62
Numbers ==
    LET Offsets == (0 - MaxOffset)..MaxOffset
        Signed(kind) ==
            {NumValue(kind, t, x, 0) : t \in -1..1, x \in Offsets}
                \cup {NumValue(kind, -2, x, 0) : x \in 0..MaxOffset}
                \cup {NumValue(kind, 2, x, 0) : x \in (0 - MaxOffset)..(-1)}
        Unsigned(kind) ==
            {NumValue(kind, t, x, 0) : t \in 1..3, x \in Offsets}
                \cup {NumValue(kind, 0, x, 0) : x \in 0..MaxOffset}
                \cup {NumValue(kind, 4, x, 0) : x \in (0 - MaxOffset)..(-1)}
        Floats(kind) ==
            {NumValue(kind, 0, x, half) : x \in Offsets, half \in {0, 1}}
                \cup {NumValue(kind, t, 0, 0) : t \in {-1, 1}}
    IN {Scalar(TypeNumber, v) :
           v \in Signed("int") \cup Signed("int64")
                   \cup Unsigned("uint") \cup Unsigned("uint64")
                   \cup Floats("float32") \cup Floats("float64")}

InitNumbers ==
    /\ a \in Numbers
    /\ b \in Numbers
    /\ options = DefaultOptions
    /\ pc = "start"
    /\ rAB = NoResult
    /\ rBA = NoResult
    /\ rAA = NoResult
    /\ docsA = <<>>
    /\ docsB = <<>>
    /\ iter = [a |-> TRUE, b |-> TRUE, stable |-> TRUE]
    /\ results = <<>>
    /\ results2 = <<>>
    /\ costMatrix = <<>>
    /\ h = <<>>
    /\ assignment = <<>>
    /\ formatter = NoFormatter
    /\ w = <<>>
    /\ fs = <<>>
    /\ threads = <<>>
    /\ command = <<>>
    /\ selection = <<>>

CompareNumbers ==
    /\ pc = "start"
    /\ rAB' = EngineCompare(NewDiffEngine(options, iter), a, b)
    /\ pc' = "done"
    /\ UNCHANGED <<a, b, options, rBA, rAA, docsA, docsB, iter, results, results2,
                   costMatrix, h, assignment, formatter, w, fs, threads, command, selection>>

NextNumbers == CompareNumbers

SpecNumbers == InitNumbers /\ [][NextNumbers]_vars

\* numeric equality of two number payloads
NumericEqual(x, y) == x.top = y.top /\ 2 * x.n + x.d = 2 * y.n + y.d

\* C13: comparing two Number nodes gives Same if and only if the values are
\* numerically equal (integer 1 equals float 1.0, 1 differs from 2, and two
\* integers beyond the int64 range are equal only if they are the same).
NumbersSameIffEqual ==
    pc = "done" => (rAB.Status = StatusSame <=> NumericEqual(a.Value, b.Value))

\* the same statement for the payloads that are small or of a signed type
NumbersSameIffEqualSmall ==
    (/\ pc = "done"
     /\ \A v \in {a.Value, b.Value} : v.top = 0 \/ v.k \in {"int", "int64"})
        => (rAB.Status = StatusSame <=> NumericEqual(a.Value, b.Value))

----------------------------------------------------------------------------
(* Specification SpecMalformed: DiffEngine.Compare on two nodes of the same *)
(* scalar type whose payloads (StructuredData.Value is an `any`) range over *)
(* the native types, compatible with the declared type or not.  Go's ==     *)
(* on two interface values is false when their dynamic types differ and     *)
(* panics when they hold the same uncomparable type, such as []any.         *)

\* a []any payload
SliceValue == [NoValue EXCEPT !.k = "slice"]

\* nil, true, false, 0, 1, 1.5, "", "x", "y", []any{}
Payloads ==
    {NoValue, BoolValue(TRUE), BoolValue(FALSE), IntValue(0), IntValue(1),
     FloatValue(1, 1), StringValue(<<>>), StringValue(<<120>>),
     StringValue(<<121>>), SliceValue}

ScalarTypes == {TypeBool, TypeNumber, TypeString}

\* `a.Value == b.Value` raises a runtime error: Bool, and String when no
\* line diff is done, compare the two payloads with ==
ComparePanics(x, y) ==
    /\ x.Type = y.Type
    /\ x.Type \in {TypeBool, TypeString}
    /\ ~shouldDoLineDiff(x, y)
    /\ x.Value.k = "slice"
    /\ y.Value.k = "slice"

InitMalformed ==
    /\ \E t \in ScalarTypes :
          /\ a \in {Scalar(t, v) : v \in Payloads}
          /\ b \in {Scalar(t, v) : v \in Payloads}
    /\ options = DefaultOptions
    /\ pc = "start"
    /\ rAB = NoResult
    /\ rBA = NoResult
    /\ rAA = NoResult
    /\ docsA = <<>>
    /\ docsB = <<>>
    /\ iter = [a |-> TRUE, b |-> TRUE, stable |-> TRUE]
    /\ results = <<>>
    /\ results2 = <<>>
    /\ costMatrix = <<>>
    /\ h = <<>>
    /\ assignment = <<>>
    /\ formatter = NoFormatter
    /\ w = <<>>
    /\ fs = <<>>
    /\ threads = <<>>
    /\ command = <<>>
    /\ selection = <<>>

\* Compare returns
CompareMalformed ==
    /\ pc = "start"
    /\ ~ComparePanics(a, b)
    /\ rAB' = EngineCompare(NewDiffEngine(options, iter), a, b)
    /\ pc' = "done"
    /\ UNCHANGED <<a, b, options, rBA, rAA, docsA, docsB, iter, results, results2,
                   costMatrix, h, assignment, formatter, w, fs, threads, command, selection>>

\* Compare panics: nothing is returned
PanicMalformed ==
    /\ pc = "start"
    /\ ComparePanics(a, b)
    /\ pc' = "panic"
    /\ UNCHANGED <<a, b, options, rAB, rBA, rAA, docsA, docsB, iter, results,
                   results2, costMatrix, h, assignment, formatter, w, fs, threads, command, selection>>

NextMalformed == CompareMalformed \/ PanicMalformed

SpecMalformed == InitMalformed /\ [][NextMalformed]_vars

\* the payload is of a native type the declared scalar type does not hold
Malformed(x) ==
    \/ x.Type = TypeBool /\ x.Value.k # "bool"
    \/ x.Type = TypeNumber /\ x.Value.k \notin {"int", "int64", "uint", "uint64", "float32", "float64"}
    \/ x.Type = TypeString /\ x.Value.k # "string"

\* C20: Compare is total over malformed input: for a node that declares a
\* scalar type (Bool, Number or String) but holds a payload of an
\* incompatible native type, Compare returns a result without raising and
\* reports the pair as Modified, also when both sides hold the same
\* malformed payload or a non-numeric payload under type Number.
MalformedIsModified ==
    (pc # "start" /\ (Malformed(a) \/ Malformed(b)))
        => (pc = "done" /\ rAB.Status = StatusModified)

\* what the code does give: under Bool and String, two payloads that differ
\* are reported as Modified
MalformedDifferentIsModified ==
    (/\ pc # "start"
     /\ Malformed(a) \/ Malformed(b)
     /\ a.Type \in {TypeBool, TypeString}
     /\ a.Value # b.Value)
        => (pc = "done" /\ rAB.Status = StatusModified)

\* Compare has returned Same for two Number nodes that hold different strings
MalformedNumbersSame ==
    /\ pc = "done"
    /\ a.Type = TypeNumber
    /\ a.Value.k = "string" /\ b.Value.k = "string"
    /\ a.Value # b.Value
    /\ rAB.Status = StatusSame

----------------------------------------------------------------------------
(* Specification SpecRace: NumThreads goroutines call Compare on one shared *)
(* DiffEngine built with the value strategy.  e.options is a field of the   *)
(* engine, read by compareArrays and written by compareMultilineStrings     *)
(* with no synchronisation; each read and each write of                     *)
(* e.options.ArrayDiffStrategy is one step, and a read gives the value in   *)
(* the field at that moment.  The inputs are arrays of scalars and strings, *)
(* so that a call reads the field in compareArrays once.                    *)

ValueOptions == [DefaultOptions EXCEPT !.ArrayDiffStrategy = ArrayStrategyValue]

Threads == 1..NumThreads

\* [1, 0] against [0, 1], against itself and against [1];
\* "a\nb" against "b\na", against itself and against "a\nB"
RacePairs ==
    LET lines == <<98, 10, 97>>
    IN {<<MkArr(<<MkInt(1), MkInt(0)>>), MkArr(<<MkInt(0), MkInt(1)>>)>>,
        <<MkArr(<<MkInt(1), MkInt(0)>>), MkArr(<<MkInt(1), MkInt(0)>>)>>,
        <<MkArr(<<MkInt(1), MkInt(0)>>), MkArr(<<MkInt(1)>>)>>,
        <<MkStr(StrLines), MkStr(lines)>>,
        <<MkStr(StrLines), MkStr(StrLines)>>,
        <<MkStr(StrLines), MkStr(StrLinesUpper)>>}

\* the locals of one goroutine
ThreadEntry(pair) ==
    [pc |-> "start", a |-> pair[1], b |-> pair[2], oldStrategy |-> "",
     arrayResult |-> NoResult, result |-> NoResult]

InitRace ==
    /\ threads \in {[t \in Threads |-> ThreadEntry(f[t])] : f \in [Threads -> RacePairs]}
    /\ options = ValueOptions
    /\ iter = [a |-> TRUE, b |-> TRUE, stable |-> TRUE]
    /\ pc = "start"
    /\ a = Nil
    /\ b = Nil
    /\ rAB = NoResult
    /\ rBA = NoResult
    /\ rAA = NoResult
    /\ docsA = <<>>
    /\ docsB = <<>>
    /\ results = <<>>
    /\ results2 = <<>>
    /\ costMatrix = <<>>
    /\ h = <<>>
    /\ assignment = <<>>
    /\ formatter = NoFormatter
    /\ w = <<>>
    /\ fs = <<>>
    /\ command = <<>>
    /\ selection = <<>>

RaceUnchanged ==
    UNCHANGED <<a, b, pc, rAB, rBA, rAA, docsA, docsB, iter, results, results2,
                costMatrix, h, assignment, formatter, w, fs, command, selection>>

\* Compare on two arrays: compareWithPath calls compareArrays, which reads
\* e.options.ArrayDiffStrategy and runs the strategy it has read
CompareArraysCall(t) ==
    /\ threads[t].pc = "start"
    /\ threads[t].a.Type = TypeArray
    /\ threads' = [threads EXCEPT
          ![t].result = EngineCompare(NewDiffEngine(options, iter),
                                      threads[t].a, threads[t].b),
          ![t].pc = "done"]
    /\ UNCHANGED options
    /\ RaceUnchanged

\* oldStrategy := e.options.ArrayDiffStrategy
SaveStrategy(t) ==
    /\ threads[t].pc = "start"
    /\ shouldDoLineDiff(threads[t].a, threads[t].b)
    /\ threads' = [threads EXCEPT ![t].oldStrategy = options.ArrayDiffStrategy,
                                  ![t].pc = "set"]
    /\ UNCHANGED options
    /\ RaceUnchanged

\* e.options.ArrayDiffStrategy = ArrayStrategyIndex
SetIndexStrategy(t) ==
    /\ threads[t].pc = "set"
    /\ options' = [options EXCEPT !.ArrayDiffStrategy = ArrayStrategyIndex]
    /\ threads' = [threads EXCEPT ![t].pc = "call"]
    /\ RaceUnchanged

\* arrayResult := e.compareArrays(aArray, bArray, path); on two arrays
\* compareWithPath does nothing but call compareArrays
CompareLines(t) ==
    /\ threads[t].pc = "call"
    /\ threads' = [threads EXCEPT
          ![t].arrayResult = EngineCompare(NewDiffEngine(options, iter),
                                           LineArray(threads[t].a),
                                           LineArray(threads[t].b)),
          ![t].pc = "restore"]
    /\ UNCHANGED options
    /\ RaceUnchanged

\* e.options.ArrayDiffStrategy = oldStrategy, and the result is built
RestoreStrategy(t) ==
    /\ threads[t].pc = "restore"
    /\ options' = [options EXCEPT !.ArrayDiffStrategy = threads[t].oldStrategy]
    /\ threads' = [threads EXCEPT
          ![t].result = MultilineResult(threads[t].a, threads[t].b, <<>>,
                                        threads[t].arrayResult),
          ![t].pc = "done"]
    /\ RaceUnchanged

NextRace ==
    \E t \in Threads :
        \/ CompareArraysCall(t)
        \/ SaveStrategy(t)
        \/ SetIndexStrategy(t)
        \/ CompareLines(t)
        \/ RestoreStrategy(t)

SpecRace == InitRace /\ [][NextRace]_vars

\* every call has returned
AllReturned == threads # <<>> /\ \A t \in Threads : threads[t].pc = "done"

\* what the call of goroutine t returns when it runs alone
Alone(t) == EngineCompare(NewDiffEngine(ValueOptions, iter), threads[t].a, threads[t].b)

\* C21: when two threads call Compare concurrently on one shared DiffEngine
\* configured with the value strategy, in every interleaving each call
\* returns the same result as when it runs alone (no array comparison is
\* dispatched to the index strategy because another call is in the middle
\* of a multiline-string comparison), and the engine's configured strategy
\* is unchanged once all calls have returned.
ConcurrentAsAlone ==
    AllReturned =>
        /\ \A t \in Threads : threads[t].result = Alone(t)
        /\ options.ArrayDiffStrategy = ArrayStrategyValue

\* the same statement for the runs in which no call compares a multiline
\* string
ConcurrentArraysAsAlone ==
    (AllReturned /\ \A t \in Threads : threads[t].a.Type = TypeArray) =>
        /\ \A t \in Threads : threads[t].result = Alone(t)
        /\ options.ArrayDiffStrategy = ArrayStrategyValue

\* an array comparison was dispatched to the index strategy
ArrayByIndexUnderRace ==
    \E t \in Threads : /\ threads[t].pc = "done"
                        /\ threads[t].a.Type = TypeArray
                        /\ threads[t].result # Alone(t)

\* the lines of a string were compared by the value strategy
LinesByValueUnderRace ==
    \E t \in Threads : /\ threads[t].pc = "done"
                        /\ threads[t].a.Type = TypeString
                        /\ threads[t].result # Alone(t)

\* all calls have returned and the engine is left with the index strategy
StrategyLostUnderRace ==
    AllReturned /\ options.ArrayDiffStrategy = ArrayStrategyIndex

----------------------------------------------------------------------------
(* Command.  Parse hands the arguments to a flag.FlagSet of the Go standard *)
(* library; FlagParse and parseOne follow FlagSet.Parse and                 *)
(* FlagSet.parseOne.  A flag set f is [args, ShowAll, ContextLines,         *)
(* Format1, actual, err]: the arguments not yet consumed, the variables the *)
(* flags are bound to, the names of the flags that were set, and whether    *)
(* parsing failed.  Of the flags NewCommand defines, the model keeps one of *)
(* each kind: show-all (bool), C (int) and format1 (string).                *)

\* "show-all", "C", "format1"
NameShowAll == <<115, 104, 111, 119, 45, 97, 108, 108>>
NameC == <<67>>
NameFormat1 == <<102, 111, 114, 109, 97, 116, 49>>

\* "-C", the argument Parse looks for
StrDashC == <<45, 67>>

\* the flags of NewCommand, with the kind of their value
FormalFlags == (NameShowAll :> "bool") @@ (NameC :> "int") @@ (NameFormat1 :> "string")

\* strconv.ParseBool
ParseBool(v) ==
    IF v \in {<<49>>, <<116>>, <<84>>, <<116, 114, 117, 101>>}
    THEN [ok |-> TRUE, b |-> TRUE]
    ELSE IF v \in {<<48>>, <<102>>, <<70>>, <<102, 97, 108, 115, 101>>}
    THEN [ok |-> TRUE, b |-> FALSE]
    ELSE [ok |-> FALSE, b |-> FALSE]

\* strconv.ParseInt on an unsigned decimal numeral of one digit, the only
\* numerals among the arguments; every other string of the model is not a
\* number
ParseInt(v) ==
    IF Len(v) = 1 /\ v[1] >= 48 /\ v[1] <= 57
    THEN [ok |-> TRUE, n |-> v[1] - 48]
    ELSE [ok |-> FALSE, n |-> 0]

\* the position of the first "=" after the first byte of name, or 0
EqualsAt(name) ==
    LET at == {i \in 2..Len(name) : name[i] = 61}
    IN IF at = {} THEN 0 ELSE CHOOSE i \in at : \A j \in at : i <= j

\* flag.Value.Set for the flag `name` of kind k
SetFlag(f, name, k, value) ==
    IF k = "bool"
    THEN LET r == ParseBool(value)
         IN IF r.ok THEN [f EXCEPT !.ShowAll = r.b, !.actual = @ \cup {name}]
            ELSE [f EXCEPT !.err = TRUE]
    ELSE IF k = "int"
    THEN LET r == ParseInt(value)
         IN IF r.ok THEN [f EXCEPT !.ContextLines = r.n, !.actual = @ \cup {name}]
            ELSE [f EXCEPT !.err = TRUE]
    ELSE [f EXCEPT !.Format1 = value, !.actual = @ \cup {name}]

\* FlagSet.parseOne: <<seen, f>>
parseOne(f) ==
    IF f.args = <<>> THEN <<FALSE, f>>
    ELSE LET arg == f.args[1] IN
    IF Len(arg) < 2 \/ arg[1] # 45 THEN <<FALSE, f>>
    ELSE LET numMinuses == IF arg[2] = 45 THEN 2 ELSE 1 IN
    IF numMinuses = 2 /\ Len(arg) = 2 THEN <<FALSE, [f EXCEPT !.args = Tail(@)]>>
    ELSE LET name0 == SubSeq(arg, numMinuses + 1, Len(arg)) IN
    IF name0 = <<>> \/ name0[1] = 45 \/ name0[1] = 61
    THEN <<FALSE, [f EXCEPT !.err = TRUE]>>
    ELSE LET eq == EqualsAt(name0)
             name == IF eq = 0 THEN name0 ELSE SubSeq(name0, 1, eq - 1)
             given == IF eq = 0 THEN <<>> ELSE SubSeq(name0, eq + 1, Len(name0))
             f1 == [f EXCEPT !.args = Tail(@)]
         IN
    IF name \notin DOMAIN FormalFlags THEN <<FALSE, [f1 EXCEPT !.err = TRUE]>>
    ELSE IF FormalFlags[name] = "bool"
    THEN LET f2 == SetFlag(f1, name, "bool", IF eq = 0 THEN <<116, 114, 117, 101>> ELSE given)
         IN <<~f2.err, f2>>
    ELSE IF eq = 0 /\ f1.args = <<>> THEN <<FALSE, [f1 EXCEPT !.err = TRUE]>>
    ELSE LET f2 == IF eq = 0
                   THEN SetFlag([f1 EXCEPT !.args = Tail(@)], name, FormalFlags[name], f1.args[1])
                   ELSE SetFlag(f1, name, FormalFlags[name], given)
         IN <<~f2.err, f2>>

\* FlagSet.Parse: parseOne until it has seen no flag
RECURSIVE FlagParse(_)
FlagParse(f) ==
    LET r == parseOne(f)
    IN IF r[1] THEN FlagParse(r[2]) ELSE r[2]

\* flag.NewFlagSet of NewCommand, given the arguments
NewFlagSet(args) ==
    [args |-> args, ShowAll |-> FALSE, ContextLines |-> 3, Format1 |-> <<>>,
     actual |-> {}, err |-> FALSE]

\* "Check if -C flag was explicitly set": the loop over args at the head of
\* Parse
ExplicitContext(args) ==
    \E i \in DOMAIN args : args[i] = StrDashC /\ i + 1 <= Len(args)

\* the errors of Parse
ErrNone == "nil"
ErrParseFlags == "parse flags"
ErrInvalidArgs == "ErrInvalidArgs"
ErrIncompatibleOptions == "ErrIncompatibleOptions"

\* Command.Parse: the Command it leaves and the error it returns (Help is
\* false: -h is not among the arguments)
CommandParse(args) ==
    LET contextLinesSet == ExplicitContext(args)
        f == FlagParse(NewFlagSet(args))
        c0 == [args |-> args, ShowAll |-> f.ShowAll, ContextLines |-> f.ContextLines,
               Format1 |-> f.Format1, contextLinesSet |-> contextLinesSet,
               actual |-> f.actual, NArg |-> Len(f.args),
               File1 |-> <<>>, File2 |-> <<>>, err |-> ErrNone]
    IN IF f.err THEN [c0 EXCEPT !.err = ErrParseFlags]
       ELSE IF Len(f.args) # 2 THEN [c0 EXCEPT !.err = ErrInvalidArgs]
       ELSE LET c1 == [c0 EXCEPT !.File1 = f.args[1], !.File2 = f.args[2]]
            IN IF c1.ShowAll /\ c1.contextLinesSet
               THEN [c1 EXCEPT !.err = ErrIncompatibleOptions]
               ELSE c1

----------------------------------------------------------------------------
(* Specification SpecParse: NewCommand, then Parse on up to MaxArgs         *)
(* arguments.                                                               *)

\* -show-all, --show-all, -C, --C, -C=1, --C=1, -format1, --, 1, f
ArgTokens ==
    {<<45>> \o NameShowAll, <<45, 45>> \o NameShowAll,
     StrDashC, <<45, 45, 67>>, <<45, 67, 61, 49>>, <<45, 45, 67, 61, 49>>,
     <<45>> \o NameFormat1, <<45, 45>>, <<49>>, <<102>>}

ArgLists == UNION {[1..n -> ArgTokens] : n \in 0..MaxArgs}

InitParse ==
    /\ command = [args |-> <<>>, err |-> "none"]
    /\ selection = <<>>
    /\ pc = "start"
    /\ threads = <<>>
    /\ options = DefaultOptions
    /\ iter = [a |-> TRUE, b |-> TRUE, stable |-> TRUE]
    /\ a = Nil
    /\ b = Nil
    /\ rAB = NoResult
    /\ rBA = NoResult
    /\ rAA = NoResult
    /\ docsA = <<>>
    /\ docsB = <<>>
    /\ results = <<>>
    /\ results2 = <<>>
    /\ costMatrix = <<>>
    /\ h = <<>>
    /\ assignment = <<>>
    /\ formatter = NoFormatter
    /\ w = <<>>
    /\ fs = <<>>

\* cmd.Parse(args)
Parse ==
    /\ pc = "start"
    /\ \E args \in ArgLists : command' = CommandParse(args)
    /\ pc' = "done"
    /\ UNCHANGED <<a, b, options, rAB, rBA, rAA, docsA, docsB, iter, results,
                   results2, costMatrix, h, assignment, formatter, w, fs, threads, selection>>

NextParse == Parse

SpecParse == InitParse /\ [][NextParse]_vars

\* flag.Parse has set the flag (FlagSet.Visit would show it)
Given(name) == name \in command.actual

\* the flags were parsed and two file arguments follow them
WellFormed == pc = "done" /\ command.err # ErrParseFlags /\ command.NArg = 2

\* C22: Command.Parse returns ErrIncompatibleOptions whenever -show-all is
\* given together with an explicitly supplied context value, in every
\* spelling the flag parser accepts for it (-C N, -C=N, --C N, --C=N), and
\* never returns that error when only one of the two options is supplied.
IncompatibleIffBothGiven ==
    /\ (WellFormed /\ command.ShowAll /\ Given(NameC))
          => command.err = ErrIncompatibleOptions
    /\ (pc = "done" /\ command.err = ErrIncompatibleOptions)
          => (Given(NameShowAll) /\ Given(NameC))

\* the spelling `-C N` among options that take no `-C` as their value, and no
\* file named -C
IncompatibleDashC ==
    (/\ WellFormed
     /\ \A i \in DOMAIN command.args :
           command.args[i] \notin {<<45, 45, 67>>, <<45, 67, 61, 49>>,
                                   <<45, 45, 67, 61, 49>>}
     /\ \A i \in DOMAIN command.args :
           command.args[i] = StrDashC =>
               (i = 1 \/ command.args[i - 1] \notin {<<45>> \o NameFormat1, <<45, 45>>}))
        => (command.err = ErrIncompatibleOptions
               <=> (Given(NameShowAll) /\ Given(NameC)))

\* -show-all -C=1 f f is accepted
EqualsSpellingAccepted ==
    /\ pc = "done"
    /\ command.args = <<<<45>> \o NameShowAll, <<45, 67, 61, 49>>, <<102>>, <<102>>>>
    /\ command.err = ErrNone
    /\ command.ShowAll
    /\ command.ContextLines = 1

\* -show-all -- -C f is refused, -C being the first file
FileNamedDashCRefused ==
    /\ pc = "done"
    /\ command.args = <<<<45>> \o NameShowAll, <<45, 45>>, StrDashC, <<102>>>>
    /\ command.err = ErrIncompatibleOptions
    /\ ~Given(NameC)

----------------------------------------------------------------------------
(* Specification SpecGreedy: DiffEngine.Compare under the value strategy on *)
(* an array of one or two numbers and an array of MaxWide - 1 or MaxWide    *)
(* numbers, so that sort.Slice is given both at most and more than          *)
(* maxInsertion matches; iter.stable is the order it leaves equal costs in. *)

Bits == {MkInt(0), MkInt(1)}

InitGreedy ==
    /\ a \in {MkArr(s) : s \in UNION {[1..n -> Bits] : n \in 1..2}}
    /\ b \in {MkArr(s) : s \in UNION {[1..n -> Bits] : n \in (MaxWide - 1)..MaxWide}}
    /\ options = ValueOptions
    /\ iter \in [a : {TRUE}, b : {TRUE}, stable : BOOLEAN]
    /\ pc = "start"
    /\ selection = <<>>
    /\ rAB = NoResult
    /\ rBA = NoResult
    /\ rAA = NoResult
    /\ docsA = <<>>
    /\ docsB = <<>>
    /\ results = <<>>
    /\ results2 = <<>>
    /\ costMatrix = <<>>
    /\ h = <<>>
    /\ assignment = <<>>
    /\ formatter = NoFormatter
    /\ w = <<>>
    /\ fs = <<>>
    /\ threads = <<>>
    /\ command = <<>>

\* the finalMatches of compareArraysByValue(x, y, path)
FinalMatches(e, x, y) ==
    GreedySelect(SortSlice(e, ValueMatches(e, x, y)), {}, {}, <<>>).finalMatches

\* Compare(a, b), and the finalMatches of its call of compareArraysByValue
CompareByValue ==
    /\ pc = "start"
    /\ rAB' = EngineCompare(NewDiffEngine(options, iter), a, b)
    /\ selection' = FinalMatches(NewDiffEngine(options, iter), a, b)
    /\ pc' = "done"
    /\ UNCHANGED <<a, b, options, rBA, rAA, docsA, docsB, iter, results, results2,
                   costMatrix, h, assignment, formatter, w, fs, threads, command>>

NextGreedy == CompareByValue

SpecGreedy == InitGreedy /\ [][NextGreedy]_vars

\* the (i, j) of the selected matches
SelectedPairs == {<<selection[k].indexA, selection[k].indexB>> : k \in DOMAIN selection}

\* all (i, j), 0-based
AllPairs == (0..(Len(a.Elements) - 1)) \X (0..(Len(b.Elements) - 1))

\* the diffCount of a[i] against b[j]
ElementCost(p) ==
    CountOf(EngineCompare(NewDiffEngine(options, iter),
                          a.Elements[p[1] + 1], b.Elements[p[2] + 1]))

\* p comes before q: by ascending diffCount, ties by lower i, then lower j
Before(p, q) ==
    \/ ElementCost(p) < ElementCost(q)
    \/ /\ ElementCost(p) = ElementCost(q)
       /\ (p[1] < q[1] \/ (p[1] = q[1] /\ p[2] < q[2]))

\* C24: under the value strategy the set of matched pairs equals the result
\* of greedy selection over all (i, j) pairs ordered by ascending diffCount
\* with ties in discovery order (lower i first, then lower j): a pair is
\* taken if and only if neither its a-index nor its b-index has been taken
\* before it.
GreedyInDiscoveryOrder ==
    pc = "done" =>
        \A p \in AllPairs :
            p \in SelectedPairs <=>
                ~\E q \in SelectedPairs :
                    Before(q, p) /\ (q[1] = p[1] \/ q[2] = p[2])

\* the same statement for at most maxInsertion pairs
GreedyInDiscoveryOrderSmall ==
    (pc = "done" /\ Cardinality(AllPairs) <= maxInsertion) =>
        \A p \in AllPairs :
            p \in SelectedPairs <=>
                ~\E q \in SelectedPairs :
                    Before(q, p) /\ (q[1] = p[1] \/ q[2] = p[2])

\* whatever the order of equal costs, the selection is greedy by cost: a
\* pair is left out only if a pair of at most its cost holds its row or its
\* column
GreedyByCost ==
    pc = "done" =>
        \A p \in AllPairs \ SelectedPairs :
            \E q \in SelectedPairs :
                /\ q[1] = p[1] \/ q[2] = p[2]
                /\ ElementCost(q) <= ElementCost(p)

\* [0] against [1, 0, 1, ..., 1, 0]: a[0] is matched with the last element of
\* b, not with b[1]
LaterTieSelected ==
    /\ pc = "done"
    /\ Len(a.Elements) = 1
    /\ Len(b.Elements) = 13
    /\ a.Elements[1] = MkInt(0)
    /\ \A j \in 1..13 : b.Elements[j] = MkInt(0) <=> j \in {2, 13}
    /\ SelectedPairs = {<<0, 12>>}

----------------------------------------------------------------------------
(* Specification SpecZero: DiffEngine.Compare with IgnoreZeroValues on two  *)
(* objects that hold at most the key "Name", its value a number of one of   *)
(* the Go types convertToStructured admits.                                 *)

NumberKinds == {"int", "int64", "uint", "uint64", "float32", "float64"}

\* {} and {"Name": v} for v zero or one of each numeric type
ZeroObjects ==
    {EmptyObj} \cup
    {MkObj(KeyName :> Scalar(TypeNumber, NumValue(k, 0, x, 0))) :
        k \in NumberKinds, x \in {0, 1}}

InitZero ==
    /\ a \in ZeroObjects
    /\ b \in ZeroObjects
    /\ options \in {o \in DiffOptions : o.IgnoreZeroValues /\ ~o.IgnoreValueCase}
    /\ iter = [a |-> TRUE, b |-> TRUE, stable |-> TRUE]
    /\ pc = "start"
    /\ rAB = NoResult
    /\ rBA = NoResult
    /\ rAA = NoResult
    /\ docsA = <<>>
    /\ docsB = <<>>
    /\ results = <<>>
    /\ results2 = <<>>
    /\ costMatrix = <<>>
    /\ h = <<>>
    /\ assignment = <<>>
    /\ formatter = NoFormatter
    /\ w = <<>>
    /\ fs = <<>>
    /\ threads = <<>>
    /\ command = <<>>
    /\ selection = <<>>

CompareZero ==
    /\ pc = "start"
    /\ rAB' = EngineCompare(NewDiffEngine(options, iter), a, b)
    /\ pc' = "done"
    /\ UNCHANGED <<a, b, options, rBA, rAA, docsA, docsB, iter, results, results2,
                   costMatrix, h, assignment, formatter, w, fs, threads, command,
                   selection>>

NextZero == CompareZero

SpecZero == InitZero /\ [][NextZero]_vars

\* the key is absent from the object, or its value is the number zero
AbsentOrZero(obj) ==
    Keys(obj) = {} \/ (LET v == obj.Children[KeyName].Value
                       IN v.top = 0 /\ v.n = 0 /\ v.d = 0)

\* the Go types of the values the two objects hold
KindsHeld == {obj.Children[KeyName].Value.k : obj \in {o \in {a, b} : Keys(o) # {}}}

\* C25: with ignoreZeroValues enabled, an object key whose value on one side
\* is the Number zero - in any numeric representation the value model
\* admits (int, int64, uint64, float32, float64) - and which is absent or
\* zero on the other side is omitted from the children, consistently with
\* the rule that 0 and 0.0 are the same number.
ZeroOmitted ==
    (pc = "done" /\ AbsentOrZero(a) /\ AbsentOrZero(b)) => rAB.Children = <<>>

\* the same statement for the types int and float64
ZeroOmittedIntFloat64 ==
    (pc = "done" /\ AbsentOrZero(a) /\ AbsentOrZero(b)
        /\ KindsHeld \subseteq {"int", "float64"})
        => rAB.Children = <<>>

\* {"Name": uint64(0)} against {}: the key is reported as Deleted
Uint64ZeroReported ==
    /\ pc = "done"
    /\ a = MkObj(KeyName :> Scalar(TypeNumber, NumValue("uint64", 0, 0, 0)))
    /\ b = EmptyObj
    /\ Len(rAB.Children) = 1
    /\ rAB.Children[1].Status = StatusDeleted
    /\ rAB.Status = StatusModified

----------------------------------------------------------------------------
(* Specification SpecKeyCase: DiffEngine.Compare with IgnoreKeyCase on two  *)
(* objects over the keys "Name", "name" and "a".  The byte order of the     *)
(* keys is "Name" < "a" < "name", the order of their lowercase forms is     *)
(* "a" < "name".                                                            *)

CaseKeys == {KeyName, KeyLowerName, StrA}

CaseObjects ==
    {MkObj(f) : f \in UNION {[K -> {MkInt(0), MkInt(1)}] : K \in SUBSET CaseKeys}}

InitKeyCase ==
    /\ a \in CaseObjects
    /\ b \in CaseObjects
    /\ options \in {o \in DiffOptions :
                       /\ o.IgnoreKeyCase
                       /\ ~o.IgnoreValueCase
                       /\ o.ArrayDiffStrategy = ArrayStrategyIndex}
    /\ iter = [a |-> TRUE, b |-> TRUE, stable |-> TRUE]
    /\ pc = "start"
    /\ rAB = NoResult
    /\ rBA = NoResult
    /\ rAA = NoResult
    /\ docsA = <<>>
    /\ docsB = <<>>
    /\ results = <<>>
    /\ results2 = <<>>
    /\ costMatrix = <<>>
    /\ h = <<>>
    /\ assignment = <<>>
    /\ formatter = NoFormatter
    /\ w = <<>>
    /\ fs = <<>>
    /\ threads = <<>>
    /\ command = <<>>
    /\ selection = <<>>

\* one call of Compare; iter keeps the orders its map ranges took
CompareKeyCase ==
    /\ pc = "start"
    /\ \E it \in RangeOrders(options) :
          /\ iter' = it
          /\ rAB' = EngineCompare(NewDiffEngine(options, it), a, b)
    /\ pc' = "done"
    /\ UNCHANGED <<a, b, options, rBA, rAA, docsA, docsB, results, results2,
                   costMatrix, h, assignment, formatter, w, fs, threads, command,
                   selection>>

NextKeyCase == CompareKeyCase

SpecKeyCase == InitKeyCase /\ [][NextKeyCase]_vars

\* the keys of the object d in the slot of the lowercase key lowerKey
SlotKeys(d, lowerKey) == {k \in Keys(d) : ToLower(k) = lowerKey}

\* the slots of the two objects
Slots == {ToLower(k) : k \in Keys(a) \cup Keys(b)}

\* the key a child is labelled with
Label(child) == child.Path[Len(child.Path)]

\* the children of the result in the slot of lowerKey
SlotChildren(lowerKey) ==
    {i \in DOMAIN rAB.Children : ToLower(Label(rAB.Children[i])) = lowerKey}

\* the ignore options let the side d of a slot pass
SlotIgnorable(d, lowerKey) ==
    IF SlotKeys(d, lowerKey) = {}
    THEN shouldIgnore(NewDiffEngine(options, iter), Nil, FALSE)
    ELSE \E k \in SlotKeys(d, lowerKey) :
            shouldIgnore(NewDiffEngine(options, iter), d.Children[k], TRUE)

\* the child compares the value under its label (or under the to-side key)
\* with a to-side value of the slot
SlotChild(child) ==
    LET lowerKey == ToLower(Label(child))
        keysA == SlotKeys(a, lowerKey)
        keysB == SlotKeys(b, lowerKey)
    IN /\ Len(child.Path) = 1
       /\ IF keysA # {}
          THEN Label(child) \in keysA /\ child.From = a.Children[Label(child)]
          ELSE Label(child) \in keysB /\ child.From = Nil
       /\ IF keysB # {}
          THEN child.To \in {b.Children[k] : k \in keysB}
          ELSE child.To = Nil
       /\ child.Status =
             IF keysA = {} THEN StatusAdded
             ELSE IF keysB = {} THEN StatusDeleted
             ELSE IF child.From = child.To THEN StatusSame
             ELSE StatusModified

\* C27: with ignoreKeyCase enabled, keys of the two objects that differ only
\* in letter case are compared as one slot (exactly one child, comparing the
\* two values, unless the ignore options skip the slot), the child's path
\* label is the from-side key when the from side has the slot and the
\* to-side key otherwise, and children are ordered by lowercase key; so
\* {Name: John} vs {name: John} is Same.
KeyCaseOneSlot ==
    pc = "done" =>
        /\ \A lowerKey \in Slots :
              /\ Cardinality(SlotChildren(lowerKey)) <= 1
              /\ SlotChildren(lowerKey) = {}
                    => (SlotIgnorable(a, lowerKey) /\ SlotIgnorable(b, lowerKey))
        /\ \A i \in DOMAIN rAB.Children : SlotChild(rAB.Children[i])
        /\ [i \in DOMAIN rAB.Children |-> ToLower(Label(rAB.Children[i]))]
              = SortStrings({ToLower(Label(rAB.Children[i])) : i \in DOMAIN rAB.Children})
        /\ rAB.Status = StatusSame
              <=> \A i \in DOMAIN rAB.Children : rAB.Children[i].Status = StatusSame

\* {"Name": 1, "a": 0} against {"name": 1, "a": 1}: the children are "a",
\* Modified, and "Name", Same, in that order
KeyCaseOneSlotWitness ==
    /\ pc = "done"
    /\ ~options.IgnoreZeroValues
    /\ a = MkObj(KeyName :> MkInt(1) @@ StrA :> MkInt(0))
    /\ b = MkObj(KeyLowerName :> MkInt(1) @@ StrA :> MkInt(1))
    /\ Len(rAB.Children) = 2
    /\ Label(rAB.Children[1]) = StrA
    /\ rAB.Children[1].Status = StatusModified
    /\ Label(rAB.Children[2]) = KeyName
    /\ rAB.Children[2].Status = StatusSame

----------------------------------------------------------------------------
(* Specification SpecFormat: as Controller.Run does, Compare is called on   *)
(* two document lists and UnifiedFormatter.Format on its results.  The      *)
(* loop of Format over the results and the output loop of the context       *)
(* window it enters for a result are taken one iteration at a time; fs      *)
(* holds their locals.                                                      *)

\* the keys "a", "b", ... of the sibling slots
SiblingKey(i) == <<96 + i>>

\* what the two sides hold in one slot: equal scalars, different scalars,
\* arrays that differ in their second element, equal arrays, a value on
\* the `to` side only
SlotPairs ==
    {<<MkInt(1), MkInt(1)>>,
     <<MkInt(1), MkInt(0)>>,
     <<MkArr(<<MkInt(1), MkInt(1)>>), MkArr(<<MkInt(1), MkInt(0)>>)>>,
     <<MkArr(<<MkInt(1)>>), MkArr(<<MkInt(1)>>)>>,
     <<Nil, MkInt(1)>>}

\* the object that holds side `side` of the slots
SlotObject(slots, side) ==
    MkObj([k \in {SiblingKey(i) : i \in {j \in DOMAIN slots : slots[j][side] # Nil}}
              |-> slots[k[1] - 96][side]])

ObjectPairs ==
    {<<SlotObject(slots, 1), SlotObject(slots, 2)>> :
        slots \in UNION {[1..n -> SlotPairs] : n \in 0..MaxSiblings}}

\* strings.Join(lines, "\n") for lines of one byte each
JoinLines(lines) ==
    [i \in 1..(2 * Len(lines) - 1) |-> IF i % 2 = 1 THEN lines[(i + 1) \div 2] ELSE 10]

\* n lines "a" against m lines, each "a" or "b"
LinePairs ==
    {<<MkStr(JoinLines([i \in 1..n |-> 97])), MkStr(JoinLines(ys))>> :
        n \in 1..MaxSiblings,
        ys \in UNION {[1..m -> {97, 98}] : m \in 1..MaxSiblings}}

Formatters ==
    [ShowOnlyDiff : BOOLEAN, ContextLines : -1..MaxContext, iter : {TRUE}]

\* the locals of Format at its entry
FormatEntry ==
    [at |-> "results", r |-> 1, needsSeparator |-> FALSE, kind |-> "children",
     children |-> <<>>, indent |-> 0, show |-> {}, i |-> 0, prevShown |-> FALSE]

InitFormat ==
    /\ \E pair \in ObjectPairs \cup LinePairs :
          /\ docsA = <<pair[1]>>
          /\ docsB = <<pair[2]>>
    /\ options = DefaultOptions
    /\ formatter \in Formatters
    /\ pc = "start"
    /\ iter = [a |-> TRUE, b |-> TRUE, stable |-> TRUE]
    /\ results = <<>>
    /\ results2 = <<>>
    /\ w = <<>>
    /\ fs = FormatEntry
    /\ threads = <<>>
    /\ command = <<>>
    /\ selection = <<>>
    /\ a = Nil
    /\ b = Nil
    /\ rAB = NoResult
    /\ rBA = NoResult
    /\ rAA = NoResult
    /\ costMatrix = <<>>
    /\ h = <<>>
    /\ assignment = <<>>

FormatUnchanged ==
    UNCHANGED <<a, b, options, rAB, rBA, rAA, docsA, docsB, iter, results2,
                costMatrix, h, assignment, formatter, threads, command, selection>>

\* results := Compare(docs1, docs2, c.diffOpts)
CompareDocs ==
    /\ pc = "start"
    /\ results' = Compare(docsA, docsB, options, iter)
    /\ pc' = "format"
    /\ UNCHANGED <<w, fs>>
    /\ FormatUnchanged

\* "---\n", written between two results that have content
Separator(needsSeparator) ==
    IF needsSeparator THEN <<Line("", 0, "---", <<>>, <<>>, <<>>)>> ELSE <<>>

\* the test that sends a result to formatWithContext
UsesContext(f, result) ==
    f.ShowOnlyDiff /\ f.ContextLines >= 0 /\ Len(result.Children) > 0

\* Format: a result without content is passed over
SkipResult ==
    /\ pc = "format" /\ fs.at = "results" /\ fs.r <= Len(results)
    /\ ~hasContentToDisplay(formatter, results[fs.r])
    /\ fs' = [fs EXCEPT !.r = fs.r + 1]
    /\ UNCHANGED <<pc, results, w>>
    /\ FormatUnchanged

\* Format: a result is written by formatDiff
FormatResult ==
    /\ pc = "format" /\ fs.at = "results" /\ fs.r <= Len(results)
    /\ hasContentToDisplay(formatter, results[fs.r])
    /\ ~UsesContext(formatter, results[fs.r])
    /\ w' = w \o Separator(fs.needsSeparator) \o formatDiff(formatter, results[fs.r], 0)
    /\ fs' = [fs EXCEPT !.r = fs.r + 1, !.needsSeparator = TRUE]
    /\ UNCHANGED <<pc, results>>
    /\ FormatUnchanged

\* Format: a result goes to formatWithContext, which hands its children to
\* formatMultilineWithContext (the lines of a string) or to
\* formatChildrenWithContext; showChild is filled, and the call returns at
\* once if nothing has changed
EnterWindow ==
    /\ pc = "format" /\ fs.at = "results" /\ fs.r <= Len(results)
    /\ hasContentToDisplay(formatter, results[fs.r])
    /\ UsesContext(formatter, results[fs.r])
    /\ LET diff == results[fs.r]
           kind == IF isMultilineStringDiff(diff) THEN "lines" ELSE "children"
           changedIndices == ChangedIndices(kind, diff.Children)
       IN fs' = IF changedIndices = {}
                THEN [fs EXCEPT !.r = fs.r + 1, !.needsSeparator = TRUE]
                ELSE [fs EXCEPT !.at = "window", !.needsSeparator = TRUE,
                                !.kind = kind, !.children = diff.Children,
                                !.indent = IF kind = "lines" THEN 2 ELSE 0,
                                !.show = ShowChild(changedIndices, Len(diff.Children),
                                                   formatter.ContextLines),
                                !.i = 0, !.prevShown = FALSE]
    /\ w' = w \o Separator(fs.needsSeparator)
    /\ UNCHANGED <<pc, results>>
    /\ FormatUnchanged

\* the locals after one iteration of the output loop
WindowNext ==
    WindowBody(formatter, fs.kind, fs.children, fs.indent, fs.show,
               [i |-> fs.i, prevShown |-> fs.prevShown, w |-> w])

\* the output loop: showChild[i] holds, the sibling is written
ShowSibling ==
    /\ pc = "format" /\ fs.at = "window" /\ fs.i < Len(fs.children)
    /\ fs.i \in fs.show
    /\ w' = WindowNext.w
    /\ fs' = [fs EXCEPT !.i = WindowNext.i, !.prevShown = WindowNext.prevShown]
    /\ UNCHANGED <<pc, results>>
    /\ FormatUnchanged

\* the output loop: showChild[i] does not hold
SkipSibling ==
    /\ pc = "format" /\ fs.at = "window" /\ fs.i < Len(fs.children)
    /\ fs.i \notin fs.show
    /\ w' = WindowNext.w
    /\ fs' = [fs EXCEPT !.i = WindowNext.i, !.prevShown = WindowNext.prevShown]
    /\ UNCHANGED <<pc, results>>
    /\ FormatUnchanged

\* the output loop ends; Format goes on with the next result
WindowReturn ==
    /\ pc = "format" /\ fs.at = "window" /\ fs.i >= Len(fs.children)
    /\ fs' = [fs EXCEPT !.at = "results", !.r = fs.r + 1]
    /\ UNCHANGED <<pc, results, w>>
    /\ FormatUnchanged

\* Format returns
FormatReturn ==
    /\ pc = "format" /\ fs.at = "results" /\ fs.r > Len(results)
    /\ pc' = "done"
    /\ UNCHANGED <<results, w, fs>>
    /\ FormatUnchanged

NextFormat ==
    \/ CompareDocs
    \/ SkipResult
    \/ FormatResult
    \/ EnterWindow
    \/ ShowSibling
    \/ SkipSibling
    \/ WindowReturn
    \/ FormatReturn

SpecFormat == InitFormat /\ [][NextFormat]_vars

----------------------------------------------------------------------------
(* Specification SpecDocs: Controller.Run on two lists of up to MaxTopLevel *)
(* documents.  Document j holds two keys of its own, so that it is paired   *)
(* with document j of the other side and its lines are recognised in the    *)
(* output; the first key has changed in some of the documents.              *)

\* the keys "a", "b", "c" and "e", "f", "g" of documents 1, 2, 3
ChangingKey(j) == <<96 + j>>
ConstantKey(j) == <<100 + j>>

Document(j, changed) ==
    MkObj((ChangingKey(j) :> MkInt(IF changed THEN 1 ELSE 0))
              @@ (ConstantKey(j) :> MkInt(1)))

InitDocs ==
    /\ \E n \in 1..MaxTopLevel : \E changed \in SUBSET (1..n) :
          /\ docsA = [j \in 1..n |-> Document(j, FALSE)]
          /\ docsB = [j \in 1..n |-> Document(j, j \in changed)]
    /\ options = DefaultOptions
    /\ formatter \in Formatters
    /\ pc = "start"
    /\ iter = [a |-> TRUE, b |-> TRUE, stable |-> TRUE]
    /\ results = <<>>
    /\ results2 = <<>>
    /\ w = <<>>
    /\ fs = FormatEntry
    /\ threads = <<>>
    /\ command = <<>>
    /\ selection = <<>>
    /\ a = Nil
    /\ b = Nil
    /\ rAB = NoResult
    /\ rBA = NoResult
    /\ rAA = NoResult
    /\ costMatrix = <<>>
    /\ h = <<>>
    /\ assignment = <<>>

SpecDocs == InitDocs /\ [][NextFormat]_vars

\* the documents, and those that have changed
DocumentIndices == DOMAIN docsA
ChangedDocuments == {j \in DocumentIndices : docsA[j] # docsB[j]}

\* a line of the output was written for document j
DocumentLine(k, j) ==
    w[k].node # <<>> /\ w[k].node[1] \in {ChangingKey(j), ConstantKey(j)}

DocumentRendered(j) == \E k \in DOMAIN w : DocumentLine(k, j)

\* the documents within ContextLines positions of a changed document
DocumentsInWindow ==
    {j \in DocumentIndices :
        \E c \in ChangedDocuments : /\ c - formatter.ContextLines <= j
                                   /\ j <= c + formatter.ContextLines}

\* an elision marker stands before the lines of document j, with at most
\* the document separator between them
MarkerBeforeDocument(j) ==
    \E k \in DOMAIN w :
        /\ w[k].form = "..."
        /\ \/ k + 1 \in DOMAIN w /\ DocumentLine(k + 1, j)
           \/ k + 2 \in DOMAIN w /\ w[k + 1].form = "---" /\ DocumentLine(k + 2, j)

\* C26: in diff-only-with-context mode the context window is applied to the
\* top-level document sequence exactly as to object and array children: an
\* unchanged document within C positions of a changed document is rendered,
\* one farther away is skipped, and a skipped run is marked by an elision
\* marker.
TopLevelWindow ==
    (pc = "done" /\ formatter.ShowOnlyDiff /\ formatter.ContextLines >= 0) =>
        /\ \A j \in DocumentIndices : DocumentRendered(j) <=> j \in DocumentsInWindow
        /\ \A j \in DocumentsInWindow :
              (j > 1 /\ (j - 1) \notin DocumentsInWindow) => MarkerBeforeDocument(j)

\* what Format does with the documents: in diff-only mode, whatever the
\* context, the documents that have changed are rendered and no other, and
\* no marker stands for the documents passed over
OnlyChangedDocuments ==
    (pc = "done" /\ formatter.ShowOnlyDiff) =>
        /\ \A j \in DocumentIndices : DocumentRendered(j) <=> j \in ChangedDocuments
        /\ \A j \in DocumentIndices : ~MarkerBeforeDocument(j)

\* three documents of which the third has changed, C = 1: the second is not
\* rendered, and nothing marks the two that were passed over
NeighbourDocumentSkipped ==
    /\ pc = "done" /\ formatter.ShowOnlyDiff /\ formatter.ContextLines = 1
    /\ Len(docsA) = 3
    /\ ChangedDocuments = {3}
    /\ ~DocumentRendered(2)
    /\ DocumentRendered(3)
    /\ \A k \in DOMAIN w : w[k].form # "..."

----------------------------------------------------------------------------
(* Specification SpecMatch: Compare(docsA, docsB, options) is run twice on *)
(* the same document lists.                                                *)

\* "Pod", "Service", "x", "y", "spec"
StrPod == <<80, 111, 100>>
StrService == <<83, 101, 114, 118, 105, 99, 101>>
StrX == <<120>>
StrY == <<121>>
KeySpec == <<115, 112, 101, 99>>

\* {kind: kind, metadata: {name: name}, spec: v}
Resource(kind, name, v) ==
    MkObj(KeyKind :> MkStr(kind)
          @@ KeyMetadata :> MkObj(KeyLowerName :> MkStr(name))
          @@ KeySpec :> MkInt(v))

\* {Name: 0, name: 1}
CaseClash == MkObj(KeyName :> MkInt(0) @@ KeyLowerName :> MkInt(1))

Documents ==
    {Resource(StrPod, StrX, 1), Resource(StrPod, StrY, 1), Resource(StrPod, StrX, 0),
     Resource(StrService, StrY, 1), Resource(StrService, StrX, 1), CaseClash}

DocLists == UNION {[1..n -> Documents] : n \in 0..MaxDocs}

\* the documents hold no array, so the array strategy is left at its
\* default; the key-case option is the one that is varied
MatchOptions == {[DefaultOptions EXCEPT !.IgnoreKeyCase = c] : c \in BOOLEAN}

InitMatch ==
    /\ docsA \in DocLists
    /\ docsB \in DocLists
    /\ options \in MatchOptions
    /\ pc = "start"
    /\ iter = [a |-> TRUE, b |-> TRUE, stable |-> TRUE]
    /\ results = <<>>
    /\ results2 = <<>>
    /\ a = Nil
    /\ b = Nil
    /\ rAB = NoResult
    /\ rBA = NoResult
    /\ rAA = NoResult
    /\ costMatrix = <<>>
    /\ h = <<>>
    /\ assignment = <<>>
    /\ formatter = NoFormatter
    /\ w = <<>>
    /\ fs = <<>>
    /\ threads = <<>>
    /\ command = <<>>
    /\ selection = <<>>

\* the first call of Compare: its results and the orders its ranges took
FirstCompare ==
    /\ pc = "start"
    /\ \E it \in RangeOrders(options) :
          /\ results' = Compare(docsA, docsB, options, it)
          /\ iter' = it
    /\ pc' = "first"
    /\ UNCHANGED <<a, b, options, rAB, rBA, rAA, docsA, docsB, results2,
                   costMatrix, h, assignment, formatter, w, fs, threads, command, selection>>

\* the second call, on the same lists
SecondCompare ==
    /\ pc = "first"
    /\ \E it \in RangeOrders(options) : results2' = Compare(docsA, docsB, options, it)
    /\ pc' = "second"
    /\ UNCHANGED <<a, b, options, rAB, rBA, rAA, docsA, docsB, iter, results,
                   costMatrix, h, assignment, formatter, w, fs, threads, command, selection>>

NextMatch == FirstCompare \/ SecondCompare

SpecMatch == InitMatch /\ [][NextMatch]_vars

----------------------------------------------------------------------------
(* Specification SpecHungarian: hungarianAlgorithm on a square matrix, one *)
(* loop test per step.  FairSpecHungarian adds that a running call keeps   *)
(* taking steps (the function is sequential code that nothing suspends);   *)
(* its runs start from SentinelMatrices.                                   *)

Costs == {0, 1, LargeCost}

Matrices == UNION {[1..n -> [1..n -> Costs]] : n \in 1..MaxN}

InitHungarian ==
    /\ costMatrix \in Matrices
    /\ h = HEntry(Len(costMatrix))
    /\ assignment = <<>>
    /\ formatter = NoFormatter
    /\ w = <<>>
    /\ fs = <<>>
    /\ threads = <<>>
    /\ command = <<>>
    /\ selection = <<>>
    /\ pc = "hungarian"
    /\ a = Nil
    /\ b = Nil
    /\ options = DefaultOptions
    /\ rAB = NoResult
    /\ rBA = NoResult
    /\ rAA = NoResult
    /\ docsA = <<>>
    /\ docsB = <<>>
    /\ iter = [a |-> TRUE, b |-> TRUE, stable |-> TRUE]
    /\ results = <<>>
    /\ results2 = <<>>

HUnchanged ==
    UNCHANGED <<a, b, options, pc, rAB, rBA, rAA, docsA, docsB, iter, results,
                results2, costMatrix, assignment, formatter, w, fs, threads, command, selection>>

\* `for i := 1; i <= n; i++` enters its body
StartRow ==
    /\ h.at = "row" /\ h.i <= h.n
    /\ h' = HStep(costMatrix, h)
    /\ HUnchanged

\* `for p[j0] != 0` runs its body once
SearchColumn ==
    /\ h.at = "search" /\ h.p[h.j0] # 0
    /\ h' = HStep(costMatrix, h)
    /\ HUnchanged

\* `for p[j0] != 0` exits: the current column is unassigned
SearchDone ==
    /\ h.at = "search" /\ h.p[h.j0] = 0
    /\ h' = HStep(costMatrix, h)
    /\ HUnchanged

\* `for j0 != 0` runs its body once
PathStep ==
    /\ h.at = "path" /\ h.j0 # 0
    /\ h' = HStep(costMatrix, h)
    /\ HUnchanged

\* `for j0 != 0` exits at the virtual column 0
PathDone ==
    /\ h.at = "path" /\ h.j0 = 0
    /\ h' = HStep(costMatrix, h)
    /\ HUnchanged

\* the outer loop exits and the assignment is returned
Return ==
    /\ h.at = "row" /\ h.i > h.n
    /\ h' = HStep(costMatrix, h)
    /\ assignment' = h'.assignment
    /\ UNCHANGED <<a, b, options, pc, rAB, rBA, rAA, docsA, docsB, iter, results,
                   results2, costMatrix, formatter, w, fs, threads, command, selection>>

NextHungarian ==
    StartRow \/ SearchColumn \/ SearchDone \/ PathStep \/ PathDone \/ Return

SpecHungarian == InitHungarian /\ [][NextHungarian]_vars

\* the matrices of the termination runs: at the largest size the entries
\* are 0 or the sentinel
SentinelMatrices ==
    UNION {[1..n -> [1..n -> IF n = MaxN THEN {0, LargeCost} ELSE Costs]] :
              n \in 1..MaxN}

InitTermination == InitHungarian /\ costMatrix \in SentinelMatrices

FairSpecHungarian ==
    InitTermination /\ [][NextHungarian]_vars /\ WF_vars(NextHungarian)

----------------------------------------------------------------------------
(* Properties of the document matcher, stated on the runs of SpecMatch. *)

\* the path of Compare that builds the cost matrix
GeneralPath == ~(Len(docsA) = 1 /\ Len(docsB) = 1)

IsPair(r) == r.From # Nil /\ r.To # Nil

\* the documents on one side of the results, in result order
FromDocs(rs) ==
    LET kept == SelectSeq(rs, LAMBDA r : r.From # Nil)
    IN [k \in DOMAIN kept |-> kept[k].From]
ToDocs(rs) ==
    LET kept == SelectSeq(rs, LAMBDA r : r.To # Nil)
    IN [k \in DOMAIN kept |-> kept[k].To]

\* what one result costs: diffCount plus penalty for a pair, the leaf
\* count for a deletion or an addition
ResultCost(r) ==
    IF IsPair(r) THEN CountOf(r) + calculateResourceMismatchPenalty(r.From, r.To)
    ELSE IF r.From # Nil THEN calculateSize(r.From)
    ELSE calculateSize(r.To)

TotalCost(rs) == SumSeq([k \in DOMAIN rs |-> ResultCost(rs[k])])

\* every way to pair the documents: f[i] is the document of B (1-based)
\* that A's i-th document is paired with, 0 when it is deleted
Pairings(la, lb) ==
    {f \in [1..la -> 0..lb] :
        \A i, j \in 1..la : (i # j /\ f[i] # 0) => f[i] # f[j]}

PairingCost(e, dA, dB, f) ==
    SumSeq([i \in DOMAIN dA |->
              IF f[i] = 0 THEN calculateSize(dA[i])
              ELSE CountOf(EngineCompare(e, dA[i], dB[f[i]]))
                   + calculateResourceMismatchPenalty(dA[i], dB[f[i]])])
    + SumSeq([j \in DOMAIN dB |->
                IF \E i \in DOMAIN dA : f[i] = j THEN 0 ELSE calculateSize(dB[j])])

\* C3: in the general path every document of A and every document of B
\* appears in exactly one result (pair, deletion or addition), and the
\* total cost of the results is minimal over all pairings.
MatcherOptimal ==
    (pc # "start" /\ GeneralPath) =>
        /\ \A k \in DOMAIN results : results[k].From # Nil \/ results[k].To # Nil
        /\ IsPermutation(FromDocs(results), docsA)
        /\ IsPermutation(ToDocs(results), docsB)
        /\ \A f \in Pairings(Len(docsA), Len(docsB)) :
              TotalCost(results)
                  <= PairingCost(NewDiffEngine(options, iter), docsA, docsB, f)

\* a run whose results hold a Modified pair that crosses positions, a
\* deletion and an addition
MatcherOptimalWitness ==
    /\ pc = "first"
    /\ Len(docsA) = 2
    /\ Len(docsB) = 2
    /\ IsPair(results[1])
    /\ results[1].Status = StatusModified
    /\ results[1].To = docsB[2]
    /\ docsB[1] # docsB[2]
    /\ \E k \in DOMAIN results : results[k].Status = StatusDeleted
    /\ \E k \in DOMAIN results : results[k].Status = StatusAdded

\* the kind of a document, Nil when it has none
KindOf(d) ==
    IF d.Type = TypeObject /\ Has(d, KeyKind) THEN d.Children[KeyKind] ELSE Nil

\* B is a permutation of A in which each document has one field other than
\* its kind changed; q[i] is where A's i-th document went
OneFieldChangedEach(e, dA, dB) ==
    /\ Len(dA) = Len(dB)
    /\ \E q \in Pairings(Len(dA), Len(dB)) :
          \A i \in DOMAIN dA :
              /\ q[i] # 0
              /\ KindOf(dB[q[i]]) = KindOf(dA[i])
              /\ CountOf(EngineCompare(e, dA[i], dB[q[i]])) = 1

\* C6: when A holds documents of different kinds and B is a permutation of
\* A with one non-kind field changed in each document, every document of A
\* is emitted as a pair with the document of B of the same kind.
SameKindPaired ==
    (/\ pc # "start"
     /\ Len(docsA) >= 2
     /\ \A i \in DOMAIN docsA : KindOf(docsA[i]) # Nil
     /\ \A i, j \in DOMAIN docsA : i # j => KindOf(docsA[i]) # KindOf(docsA[j])
     /\ OneFieldChangedEach(NewDiffEngine(options, iter), docsA, docsB))
        => \A i \in DOMAIN docsA :
              \E k \in DOMAIN results :
                  /\ results[k].From = docsA[i]
                  /\ IsPair(results[k])
                  /\ KindOf(results[k].To) = KindOf(docsA[i])

\* y is x with another metadata.name and nothing else changed
IsRename(x, y) ==
    /\ KindOf(x) # Nil
    /\ Has(x, KeyMetadata)
    /\ x.Children[KeyMetadata].Type = TypeObject
    /\ Has(x.Children[KeyMetadata], KeyLowerName)
    /\ y # x
    /\ \E name \in {StrX, StrY} :
          y = MkObj([x.Children EXCEPT ![KeyMetadata] =
                  MkObj([x.Children[KeyMetadata].Children EXCEPT
                            ![KeyLowerName] = MkStr(name)])])

\* C7: in a multi-document comparison a resource that keeps its kind and
\* whose only change is metadata.name is emitted as one Modified pair, not
\* as a deletion plus an addition.  The resource is the only one of its
\* kind on either side.
RenameIsModified ==
    (pc # "start" /\ GeneralPath) =>
        \A i \in DOMAIN docsA, j \in DOMAIN docsB :
            (/\ IsRename(docsA[i], docsB[j])
             /\ \A k \in DOMAIN docsA : k # i => KindOf(docsA[k]) # KindOf(docsA[i])
             /\ \A k \in DOMAIN docsB : k # j => KindOf(docsB[k]) # KindOf(docsA[i]))
                => \E k \in DOMAIN results :
                      /\ results[k].From = docsA[i]
                      /\ results[k].To = docsB[j]
                      /\ results[k].Status = StatusModified

\* C8: running Compare(docsA, docsB, options) twice on the same inputs
\* yields identical results, whatever the map iteration order.
CompareDeterministic ==
    pc = "second" => results = results2

\* some node of the tree r, at any depth, is not Same
RECURSIVE SomeNodeDiffers(_)
SomeNodeDiffers(r) ==
    \/ r.Status # StatusSame
    \/ \E i \in DOMAIN r.Children : SomeNodeDiffers(r.Children[i])

\* C16: for every forest returned by Compare, HasDifferences(forest) is true
\* if and only if some node of the forest, at any depth, has a status other
\* than Same.
HasDifferencesAnyDepth ==
    /\ pc \in {"first", "second"} =>
          (HasDifferences(results)
              <=> \E k \in DOMAIN results : SomeNodeDiffers(results[k]))
    /\ pc = "second" =>
          (HasDifferences(results2)
              <=> \E k \in DOMAIN results2 : SomeNodeDiffers(results2[k]))

\* Pod x against Pod y: a tree that differs two levels below its root, at
\* metadata.name
HasDifferencesAnyDepthWitness ==
    /\ pc = "first"
    /\ Len(results) = 1
    /\ results[1].Status = StatusModified
    /\ \E i \in DOMAIN results[1].Children :
          /\ results[1].Children[i].Status = StatusModified
          /\ \E j \in DOMAIN results[1].Children[i].Children :
                /\ results[1].Children[i].Children[j].Status = StatusModified
                /\ results[1].Children[i].Children[j].Path
                      = <<KeyMetadata, KeyLowerName>>
    /\ HasDifferences(results)

----------------------------------------------------------------------------
(* Properties of hungarianAlgorithm, stated on the runs of SpecHungarian. *)

\* the assignments that give every row a column of its own
Assignments(n) ==
    {f \in [1..n -> 0..(n - 1)] : \A i, j \in 1..n : i # j => f[i] # f[j]}

\* the total cost of an assignment, exact
AssignmentCost(cost, f) == WSum([i \in DOMAIN cost |-> cost[i][f[i] + 1]])

\* C4: for every n x n matrix of non-negative costs up to 1 << 30 the
\* returned assignment is a permutation of 0..n-1 whose total cost is
\* minimal among all permutations.
HungarianOptimal ==
    h.at = "done" =>
        /\ assignment \in Assignments(h.n)
        /\ \A f \in Assignments(h.n) :
              ~WLess(AssignmentCost(costMatrix, f),
                     AssignmentCost(costMatrix, assignment))

\* C5: hungarianAlgorithm terminates: every search loop reaches an
\* unassigned column, every path loop ends at the virtual column 0, and the
\* call returns.
HungarianTerminates ==
    /\ (h.at = "search") ~> (h.at = "path")
    /\ (h.at = "path") ~> (h.at = "row")
    /\ <>(h.at = "done")

\* a call that returned after its search moved rows to other columns
HungarianTerminatesWitness ==
    /\ h.at = "done"
    /\ h.n >= 2
    /\ \E i \in 1..h.n : assignment[i] # i - 1
    /\ \E i, j \in 1..h.n : costMatrix[i][j] = LargeCost

----------------------------------------------------------------------------
(* Properties of the context window, stated on the runs of SpecFormat.  The *)
(* sibling sequence is the children of the one result Format is given.      *)

Siblings == IF results = <<>> THEN <<>> ELSE results[1].Children

\* 0-based positions
Positions == 0..(Len(Siblings) - 1)

\* Format has returned, in diff-only-with-context mode
ContextModeDone ==
    pc = "done" /\ formatter.ShowOnlyDiff /\ formatter.ContextLines >= 0

\* the siblings whose subtree contains a node that is not Same
Anchors == {i \in Positions : SomeNodeDiffers(Siblings[i + 1])}

\* the siblings for which a line was written
Rendered == {i \in Positions : \E k \in DOMAIN w : w[k].node = Siblings[i + 1].Path}

\* the positions in w of the elision markers of the sibling sequence (the
\* markers of a nested sequence are indented further)
SiblingMarkers == {k \in DOMAIN w : w[k].form = "..." /\ w[k].indent = fs.indent}

\* p is a prefix of q
IsPrefix(p, q) == Len(p) <= Len(q) /\ SubSeq(q, 1, Len(p)) = p

\* the line at position k of w opens the block written for sibling i
OpensSibling(k, i) ==
    /\ k \in DOMAIN w
    /\ w[k].node = Siblings[i + 1].Path
    /\ \A j \in 1..(k - 1) : ~IsPrefix(Siblings[i + 1].Path, w[j].node)

\* C17: in diff-only-with-context mode (C >= 0) the rendered set of indices
\* of a sibling sequence is exactly the union, over every anchor a, of the
\* range [a-C, a+C] clipped to the sequence bounds; with no anchor nothing
\* is rendered.
ContextWindowIsUnion ==
    ContextModeDone =>
        /\ Rendered =
              {j \in Positions :
                  \E an \in Anchors : /\ an - formatter.ContextLines <= j
                                      /\ j <= an + formatter.ContextLines}
        /\ Anchors = {} => w = <<>>

\* with C = 1, the changes at both ends of five siblings: two ranges, each
\* clipped at a bound, and position 2 left out
ContextWindowIsUnionWitness ==
    /\ ContextModeDone
    /\ formatter.ContextLines = 1
    /\ Len(Siblings) = 5
    /\ Anchors = {0, 4}
    /\ Rendered = {0, 1, 3, 4}

FiveSiblingsOneChange ==
    /\ ContextModeDone
    /\ formatter.ContextLines = 1
    /\ Len(Siblings) = 5
    /\ Anchors = {2}

====
